---- MODULE Spec2Model ----
(***************************************************************************)
(* Model of the analysis engine of perfectns (src/pns/analysis_utils.py):  *)
(* live-count reconstruction (get_nlive), thread merging (merge_lrxp,      *)
(* get_n_calls), thread bootstrap resampling (bootstrap_resample_run) and  *)
(* the prior-volume weights (get_logx, get_logw), the estimator and        *)
(* uncertainty drivers (get_estimators, run_estimators, run_std_simulate,  *)
(* run_std_bootstrap, run_ci_bootstrap); of src/pns/maths_functions.py:    *)
(* log_subtract and the nsphere shell samplers; and of                     *)
(* src/pns/save_load_utils.py: pickle_save and pickle_load.                *)
(*                                                                         *)
(* Floats are modelled by integers; a float that may be NaN is a record    *)
(* [nan, v] and every comparison involving NaN is FALSE, as in IEEE 754.   *)
(* The floats of get_logx and get_logw are exact: fractions for logx,      *)
(* sums of c * exp(q) under a logarithm for log-space values.              *)
(* A Python value that is either None or an array is a record             *)
(* [isNone, rows].  A Python call either returns a value or raises: its    *)
(* outcome is a record [err, val] with err = "" when it returned.          *)
(***************************************************************************)
EXTENDS Integers, Sequences, FiniteSets, TLC

VARIABLES
    run_dict,           \* get_nlive: the run dictionary passed in
    logl,               \* get_nlive: the (ascending) logl column passed in
    nlive_out,          \* get_nlive: outcome of the call
    array_list,         \* merge_lrxp / get_n_calls: the list of threads
    lrxp_out,           \* merge_lrxp: outcome of the call
    n_calls_out,        \* get_n_calls: outcome of the call
    ns_run,             \* the run given to the bootstrap / estimator drivers
    sample_ninit_sep,   \* bootstrap_resample_run: its keyword argument
    inds,               \* bootstrap_resample_run: the indices drawn
    boot_out,           \* bootstrap_resample_run: outcome (ns_run_temp)
    est_out,            \* run_estimators: outcome of the call
    n_simulate,         \* run_ci_bootstrap: kwargs["n_simulate"]
    cred_int,           \* run_ci_bootstrap: kwargs["cred_int"], in hundredths
    ci_pc,              \* run_ci_bootstrap: position in the function
    ci_i,               \* run_ci_bootstrap: loop counter i
    ns_run_temp,        \* run_ci_bootstrap: the resample of this iteration
    bs_values,          \* run_ci_bootstrap: columns of bs_values written
    n_resampled,        \* run_ci_bootstrap: bootstrap resamples drawn so far
    n_evaluated,        \* run_ci_bootstrap: run_estimators calls made so far
    ci_out,             \* run_ci_bootstrap: outcome of the call
    loga, logb,         \* log_subtract: its arguments
    ls_out,             \* log_subtract: outcome of the call
    w_logl,             \* get_logw: the logl column passed in
    w_nlive,            \* get_logx / get_logw: the nlive_array passed in
    simulate,           \* get_logx / get_logw: the simulate argument
    rng,                \* the values log(np.random.random()) will give next
    logx_out,           \* get_logx: outcome of the call
    logw_out,           \* get_logw: outcome of the call
    ge_lrxp, ge_logw,   \* get_estimators: the table and weights passed in
    ge_list,            \* get_estimators: the estimator_list passed in
    ge_out,             \* get_estimators: outcome of the call
    sh_fn,              \* the nsphere shell sampler called
    sh_m,               \* nsphere shell samplers: r.shape[0]
    n_dim, n_sample,    \* nsphere shell samplers: their arguments
    sh_out,             \* nsphere shell samplers: outcome of the call
    files,              \* pickle_save / pickle_load: the files on disk
    clock,              \* pickle_save: the second time.asctime() shows
    saved,              \* pickle_save: the saves made so far, in order
    load_out,           \* pickle_load: the name loaded and the outcome
    proc,               \* which of the three uncertainty procedures runs
    slot_writes,        \* number of writes to each column of the matrix
    sim_lrxp, sim_nlive \* run_std_simulate: its locals lrxp and nlive

nliveVars == <<run_dict, logl, nlive_out>>
mergeVars == <<array_list, lrxp_out, n_calls_out>>
bootVars == <<sample_ninit_sep, inds, boot_out>>
ciVars == <<n_simulate, cred_int, ci_pc, ci_i, ns_run_temp, bs_values,
            n_resampled, n_evaluated, ci_out>>

lsVars == <<loga, logb, ls_out>>
weightVars == <<w_logl, w_nlive, simulate, rng, logx_out, logw_out>>
geVars == <<ge_lrxp, ge_logw, ge_list, ge_out>>
shellVars == <<sh_fn, sh_m, n_dim, n_sample, sh_out>>
fsVars == <<files, clock, saved, load_out>>
uncVars == <<proc, slot_writes, sim_lrxp, sim_nlive>>
pureVars == <<lsVars, weightVars, geVars, shellVars, fsVars>>

vars == <<nliveVars, mergeVars, ns_run, bootVars, est_out, ciVars, pureVars,
          uncVars>>

----------------------------------------------------------------------------
(* Bounds of the model *)

MaxLogl == 1        \* sample logl values range over 0..MaxLogl
MaxN == 2           \* at most MaxN samples passed to get_nlive
MaxRec == 2         \* at most MaxRec thread interval records
MaxNlive == 3       \* settings['nlive'] ranges over 0..MaxNlive
MaxRows == 2        \* at most MaxRows rows in a thread given to merge_lrxp
MaxThreads == 2     \* at most MaxThreads threads given to merge_lrxp
MaxBootThreads == 3 \* at most MaxBootThreads threads in a resampled run
MaxSim == 3         \* n_simulate ranges over 1..MaxSim
MaxLs == 3          \* arguments of log_subtract are n / d with |n| <= MaxLs
MaxDen == 2         \* ... and 1 <= d <= MaxDen
MaxCols == 5        \* a table given to get_estimators has 3..MaxCols columns
MaxEst == 2         \* at most MaxEst estimators in an estimator_list
MaxFreeDraws == 1   \* random numbers that vary within one call in run_std_simulate
MaxShellM == 2       \* r has at most MaxShellM entries
MaxShellDim == 3     \* small n_dim are 1..MaxShellDim, n_sample 1..MaxShellDim + 1
MaxSaves == 3        \* at most MaxSaves calls of pickle_save in a behaviour
MaxClock == 1        \* the clock shows the seconds 0..MaxClock
MaxChain == 2       \* a chain of records has 1..MaxChain thresholds in 0..MaxChain
MaxChainN == 2      \* at most MaxChainN samples passed with a chain
MaxGridSim == 25    \* n_simulate ranges over 1..MaxGridSim for the cdf grid
MaxPairs == 2       \* at most MaxPairs threads in a run resampled for its live counts
MaxWDraws == 3      \* random numbers that vary freely in the generator's stream for get_logx / get_logw
MaxW == 3           \* at most MaxW samples given to get_logx / get_logw

----------------------------------------------------------------------------
(* Python / numpy values *)

NaN == [nan |-> TRUE, v |-> 0]
Num(x) == [nan |-> FALSE, v |-> x]
isnan(x) == x.nan

\* a >= b and a > b on floats: FALSE as soon as one side is NaN
Ge(a, b) == ~a.nan /\ ~b.nan /\ a.v >= b.v
Gt(a, b) == ~a.nan /\ ~b.nan /\ a.v > b.v

Returned(x) == [err |-> "", val |-> x]
Raised(e) == [err |-> e, val |-> <<>>]
Pending == [err |-> "pending", val |-> <<>>]

\* numpy's arr.min(): the smallest entry of a non-empty array
ArrMin(arr) == CHOOSE m \in {arr[i] : i \in 1..Len(arr)} :
                   \A i \in 1..Len(arr) : m <= arr[i]

\* np.zeros(n) + c
Full(n, c) == [i \in 1..n |-> c]

----------------------------------------------------------------------------
(* get_nlive *)

\* nlive_array[np.where(cond)] += r[2], cond the boolean array of a condition
AddWhere(arr, cond, r) ==
    [i \in 1..Len(arr) |-> IF cond[i] THEN arr[i] + r[3] ELSE arr[i]]

\* r[1] >= logl
NoMinCond(r, ll) == [i \in 1..Len(ll) |-> Ge(r[2], Num(ll[i]))]
\* mutant: the lower bound of a record without logl_max taken as closed
NoMaxCondClosed(r, ll) == [i \in 1..Len(ll) |-> Ge(Num(ll[i]), r[1])]
\* logl > r[0]
NoMaxCond(r, ll) == [i \in 1..Len(ll) |-> Gt(Num(ll[i]), r[1])]

\* mutant: the lower bound of a bounded record taken as closed
BothCondClosedBelow(r, ll) ==
    [i \in 1..Len(ll) |-> Ge(r[2], Num(ll[i])) /\ Ge(Num(ll[i]), r[1])]

\* (r[1] >= logl) & (logl > r[0])
BothCond(r, ll) ==
    [i \in 1..Len(ll) |-> Ge(r[2], Num(ll[i])) /\ Gt(Num(ll[i]), r[1])]

RECURSIVE AccumNoMin(_, _, _)
AccumNoMin(arr, rows, ll) ==
    IF rows = <<>> THEN arr
    ELSE AccumNoMin(AddWhere(arr, NoMinCond(Head(rows), ll), Head(rows)),
                    Tail(rows), ll)

RECURSIVE AccumNoMax(_, _, _)
AccumNoMax(arr, rows, ll) ==
    IF rows = <<>> THEN arr
    ELSE AccumNoMax(AddWhere(arr, NoMaxCond(Head(rows), ll), Head(rows)),
                    Tail(rows), ll)

RECURSIVE AccumBoth(_, _, _)
AccumBoth(arr, rows, ll) ==
    IF rows = <<>> THEN arr
    ELSE AccumBoth(AddWhere(arr, BothCond(Head(rows), ll), Head(rows)),
                   Tail(rows), ll)

IsNoMin(r) == isnan(r[1])
IsNoMax(r) == isnan(r[2])
IsBoth(r) == ~isnan(r[1]) /\ ~isnan(r[2])
\* mutant: the two NaN tests joined by ^ instead of &
IsNeitherExclusive(r) == isnan(r[1]) # isnan(r[2])
IsNeither(r) == isnan(r[1]) /\ isnan(r[2])

\* the dynamic branch up to (not including) its assertion
DynamicNlive(lmm_ar, ll) ==
    LET a0 == Full(Len(ll), 0)
        a1 == AccumNoMin(a0, SelectSeq(lmm_ar, IsNoMin), ll)
        a2 == AccumNoMax(a1, SelectSeq(lmm_ar, IsNoMax), ll)
    IN  AccumBoth(a2, SelectSeq(lmm_ar, IsBoth), ll)

\* mutant: the ramp written one entry too early (nlive_array[-i - 1] = i)
RECURSIVE RampDownShifted(_, _, _)
RampDownShifted(arr, i, nlive) ==
    IF i >= nlive THEN Returned(arr)
    ELSE IF i + 1 > Len(arr) THEN Raised("IndexError")
    ELSE RampDownShifted([arr EXCEPT ![Len(arr) - i] = i], i + 1, nlive)

\* for i in range(1, nlive): nlive_array[-i] = i
\* (index -i of an array of n entries is entry n - i + 1 here; it is out of
\* range, an IndexError, when i > n)
RECURSIVE RampDown(_, _, _)
RampDown(arr, i, nlive) ==
    IF i >= nlive THEN Returned(arr)
    ELSE IF i > Len(arr) THEN Raised("IndexError")
    ELSE RampDown([arr EXCEPT ![Len(arr) - i + 1] = i], i + 1, nlive)

\* mutant: the final assertion accepts zeros (min() >= 0)
CheckNonNegative(res) ==
    IF res.err # "" THEN res
    ELSE IF Len(res.val) = 0 THEN Raised("ValueError")
    ELSE IF ~(ArrMin(res.val) >= 0) THEN Raised("AssertionError")
    ELSE res

\* the final assertion and return
CheckPositive(res) ==
    IF res.err # "" THEN res
    ELSE IF Len(res.val) = 0 THEN Raised("ValueError")
    ELSE IF ~(ArrMin(res.val) > 0) THEN Raised("AssertionError")
    ELSE res

get_nlive(rd, ll) ==
    IF "nlive_array" \in DOMAIN rd THEN
        CheckPositive(Returned(rd.nlive_array))
    ELSE IF "thread_logl_min_max" \notin DOMAIN rd THEN
        IF rd.settings.dynamic_goal # "None" THEN Raised("AssertionError")
        ELSE CheckPositive(RampDown(Full(Len(ll), rd.settings.nlive), 1,
                                    rd.settings.nlive))
    ELSE
        LET lmm_ar == rd.thread_logl_min_max
            arr == DynamicNlive(lmm_ar, ll)
        IN  IF Len(SelectSeq(lmm_ar, IsNeither)) # 0
            THEN Raised("AssertionError")
            ELSE CheckPositive(Returned(arr))

----------------------------------------------------------------------------
(* merge_lrxp and get_n_calls *)

\* a thread or a merged table: None, or an array given by its rows;
\* a row is <<logl, r, logx, theta>>
None == [isNone |-> TRUE, rows |-> <<>>]
Arr(rows) == [isNone |-> FALSE, rows |-> rows]

\* column c of a table (0-based, as in the source)
Col(rows, c) == [j \in 1..Len(rows) |-> rows[j][c + 1]]

\* mutant: the new array replaces the rows stacked so far
VstackOverwrite(output, array) == array

\* np.vstack((output, array))
vstack(output, array) == Arr(output.rows \o array.rows)

\* fancy indexing tbl[idx] with 0-based indices
Take(tbl, idx) == [j \in 1..Len(idx) |-> tbl[idx[j] + 1]]

\* np.argsort of a 1-d array.  The order of equal keys is fixed by the sort
\* numpy runs, not by its interface: on arrays of at most 16 entries the
\* default kind is an insertion sort, which keeps equal keys in their order.
\* InsertIdx puts index k into the sorted index list idx, after the entries
\* whose key is <= keys[k].
RECURSIVE InsertIdx(_, _, _)
InsertIdx(idx, k, keys) ==
    IF idx = <<>> THEN <<k>>
    ELSE IF keys[idx[Len(idx)] + 1] <= keys[k + 1] THEN Append(idx, k)
    ELSE Append(InsertIdx(SubSeq(idx, 1, Len(idx) - 1), k, keys),
                idx[Len(idx)])

RECURSIVE ArgSortFrom(_, _, _)
ArgSortFrom(idx, k, keys) ==
    IF k >= Len(keys) THEN idx
    ELSE ArgSortFrom(InsertIdx(idx, k, keys), k + 1, keys)

\* mutant: no sorting, the identity permutation
ArgsortIdentity(keys) == [j \in 1..Len(keys) |-> j - 1]

argsort(keys) == ArgSortFrom(<<>>, 0, keys)

\* mutant: an absent thread coerced to one zero-filled row
MergeStepZeroFill(output, array) ==
    LET a == IF array.isNone THEN [isNone |-> FALSE, rows |-> << <<0, 0, 0, 0>> >>]
             ELSE array
    IN  IF ~output.isNone
        THEN [isNone |-> FALSE, rows |-> output.rows \o a.rows]
        ELSE a

\* mutant: an absent thread discards what was merged so far
MergeStepResetOnNone(output, array) ==
    IF ~array.isNone
    THEN IF ~output.isNone THEN vstack(output, array) ELSE array
    ELSE None

\* one pass of the loop of merge_lrxp
MergeStep(output, array) ==
    IF ~array.isNone
    THEN IF ~output.isNone THEN vstack(output, array) ELSE array
    ELSE output

RECURSIVE MergeLoop(_, _)
MergeLoop(output, arrays) ==
    IF arrays = <<>> THEN output
    ELSE MergeLoop(MergeStep(output, Head(arrays)), Tail(arrays))

merge_lrxp(arrays) ==
    LET output == MergeLoop(None, arrays)
    IN  IF ~output.isNone
        THEN Arr(Take(output.rows, argsort(Col(output.rows, 0))))
        ELSE output

RECURSIVE CallsLoop(_, _)
CallsLoop(n_calls, threads) ==
    IF threads = <<>> THEN n_calls
    ELSE CallsLoop(IF ~Head(threads).isNone
                   THEN n_calls + Len(Head(threads).rows)
                   ELSE n_calls,
                   Tail(threads))

get_n_calls(run) == CallsLoop(0, run.threads)

----------------------------------------------------------------------------
(* Floats of get_logx, get_logw and log_subtract, kept exact *)

\* A finite float is the rational n / d (d > 0, lowest terms); rounding is
\* not modelled.
Abs(x) == IF x < 0 THEN -x ELSE x

RECURSIVE GCD(_, _)
GCD(a, b) == IF b = 0 THEN a ELSE GCD(b, a % b)

Rat(n, d) ==
    LET g == GCD(Abs(n), Abs(d))
        sgn == IF d < 0 THEN -1 ELSE 1
    IN  [n |-> sgn * (n \div g), d |-> sgn * (d \div g)]

RInt(k) == [n |-> k, d |-> 1]
RAdd(a, b) == Rat(a.n * b.d + b.n * a.d, a.d * b.d)
RSub(a, b) == Rat(a.n * b.d - b.n * a.d, a.d * b.d)
RMul(a, b) == Rat(a.n * b.n, a.d * b.d)
RLt(a, b) == a.n * b.d < b.n * a.d

\* A linear-space float is a sum of terms c * exp(q) with rational c # 0 and
\* distinct rational q: the set of the pairs <<q, c>> (the empty set is 0).
ESExp(q) == {<<q, RInt(1)>>}
ESCoef(es, q) ==
    IF \E t \in es : t[1] = q THEN (CHOOSE t \in es : t[1] = q)[2]
    ELSE RInt(0)
ESAdd(x, y) ==
    LET qs == {t[1] : t \in x \cup y}
    IN  {<<q, RAdd(ESCoef(x, q), ESCoef(y, q))>> :
            q \in {u \in qs : RAdd(ESCoef(x, u), ESCoef(y, u)) # RInt(0)}}
ESScale(es, k) == {<<t[1], RMul(t[2], k)>> : t \in es}
ESNeg(es) == ESScale(es, RInt(-1))
\* the sum is below zero: a term with a negative coefficient has a larger
\* exponent than every term with a positive one (exact for exp(a) - exp(b))
ESNegative(es) ==
    \E t \in es :
        /\ t[2].n < 0
        /\ \A u \in es : u[2].n > 0 => RLt(u[1], t[1])

\* A log-space float is NaN or the logarithm of a linear-space float
\* (log 0 is -inf).
LogNaN == [nan |-> TRUE, sum |-> {}]
LogOf(es) == [nan |-> FALSE, sum |-> es]
\* the float q seen as a log-space value: q = log(exp(q))
LogNum(q) == LogOf(ESExp(q))
\* np.log(x): NaN for x < 0
np_log(es) == IF ESNegative(es) THEN LogNaN ELSE LogOf(es)
\* v + c for a finite float c
LogShift(v, c) ==
    IF v.nan THEN v ELSE LogOf({<<RAdd(t[1], c), t[2]>> : t \in v.sum})
\* v + np.log(k) for a rational k > 0
LogScale(v, k) == IF v.nan THEN v ELSE LogOf(ESScale(v.sum, k))
\* scipy.misc.logsumexp([v, w])
logsumexp(v, w) ==
    IF v.nan \/ w.nan THEN LogNaN ELSE LogOf(ESAdd(v.sum, w.sum))

\* loga + np.log(1 - np.exp(logb - loga)); the assertion loga >= logb of
\* lines 315-316 is commented out, so nothing is raised
log_subtract(la, lb) ==
    LET arg == ESAdd(ESExp(RInt(0)), ESNeg(ESExp(RSub(lb, la))))
    IN  LogShift(np_log(arg), la)

----------------------------------------------------------------------------
(* get_logw, get_estimators and run_estimators *)

\* The outcome of a call that may draw random numbers: rng is what is left
\* of the values np.log(np.random.random()) gives, in the order drawn.
Drew(err, val, g) == [err |-> err, val |-> val, rng |-> g]

\* mutant: the steps returned without np.cumsum
StepsOnly(steps) == steps

\* np.cumsum(steps)
RECURSIVE cumsum(_)
cumsum(steps) ==
    IF Len(steps) <= 1 THEN steps
    ELSE LET front == cumsum(SubSeq(steps, 1, Len(steps) - 1))
         IN  Append(front, RAdd(front[Len(front)], steps[Len(steps)]))

\* mutant: the random numbers drawn before the assertion on nlive_array
get_logx_draw_first(nlive_array, sim, g) ==
    LET n == Len(nlive_array)
        rest == IF sim THEN SubSeq(g, n + 1, Len(g)) ELSE g
    IN  IF n = 0 THEN Drew("ValueError", <<>>, rest)
        ELSE IF ~(ArrMin(nlive_array) > 0)
        THEN Drew("AssertionError", <<>>, rest)
        ELSE Drew("", cumsum([i \in 1..n |->
                        IF sim THEN RMul(g[i], Rat(1, nlive_array[i]))
                        ELSE RMul(RInt(-1), Rat(1, nlive_array[i]))]), rest)

\* get_logx(nlive_array, simulate): nlive_array.min() of an empty array is a
\* ValueError; the assertion min() > 0 comes before the random draw; the
\* random draw takes one number per entry
get_logx(nlive_array, sim, g) ==
    LET n == Len(nlive_array)
    IN  IF n = 0 THEN Drew("ValueError", <<>>, g)
        ELSE IF ~(ArrMin(nlive_array) > 0)
        THEN Drew("AssertionError", <<>>, g)
        ELSE IF sim
        THEN Drew("", cumsum([i \in 1..n |->
                                 RMul(g[i], Rat(1, nlive_array[i]))]),
                  SubSeq(g, n + 1, Len(g)))
        ELSE Drew("", cumsum([i \in 1..n |->
                                 RMul(RInt(-1), Rat(1, nlive_array[i]))]), g)

\* logx_inc_start = np.zeros(N + 1); logx_inc_start[1:] = logx
\* (an array of one entry is broadcast)
LogxIncStart(N, logx) ==
    <<RInt(0)>> \o [i \in 1..N |-> IF Len(logx) = 1 THEN logx[1] ELSE logx[i]]

\* mutant: logw[:-1] from neighbouring volumes, X_{i-1} - X_i
TrapeziumNarrow(N, lis) ==
    [i \in 1..N |-> IF i <= N - 1 THEN log_subtract(lis[i], lis[i + 1])
                    ELSE LogNum(RInt(0))]

\* logw = np.zeros(N);
\* logw[:-1] = mf.log_subtract(logx_inc_start[:-2], logx_inc_start[2:])
Trapezium(N, lis) ==
    [i \in 1..N |-> IF i <= N - 1 THEN log_subtract(lis[i], lis[i + 2])
                    ELSE LogNum(RInt(0))]

\* logw -= np.log(2)
Halve(logw) == [i \in 1..Len(logw) |-> LogScale(logw[i], Rat(1, 2))]

\* logw[0] = logsumexp([logw[0],
\*     np.log(0.5) + mf.log_subtract(logx_inc_start[0], logx_inc_start[1])])
FirstPoint(logw, lis) ==
    [logw EXCEPT ![1] =
        logsumexp(logw[1], LogScale(log_subtract(lis[1], lis[2]), Rat(1, 2)))]

\* logw[-1] = logw[-2]
LastPoint(logw) == [logw EXCEPT ![Len(logw)] = logw[Len(logw) - 1]]

\* logw += logl
AddLogl(logw, ll) == [i \in 1..Len(logw) |-> LogShift(logw[i], RInt(ll[i]))]

\* get_logw(logl, nlive_array, simulate).  logx_inc_start[1:] = get_logx(...)
\* is a ValueError when nlive_array has neither one entry nor one entry per
\* sample, logw[0] is an IndexError without samples and logw[-1] = logw[-2]
\* is an IndexError on a single sample.
get_logw(ll, nlive_array, sim, g) ==
    LET N == Len(ll)
        logx == get_logx(nlive_array, sim, g)
    IN  IF logx.err # "" THEN logx
        ELSE IF Len(logx.val) # N /\ Len(logx.val) # 1
        THEN Drew("ValueError", <<>>, logx.rng)
        ELSE IF N = 0 THEN Drew("IndexError", <<>>, logx.rng)
        ELSE IF N = 1 THEN Drew("IndexError", <<>>, logx.rng)
        ELSE LET lis == LogxIncStart(N, logx.val)
             IN  Drew("", AddLogl(LastPoint(FirstPoint(Halve(
                              Trapezium(N, lis)), lis)), ll), logx.rng)

\* f.estimator(logw=..., logl=..., r=..., theta=...): an estimator is any
\* object with this method; its value is kept as the term of its application
estimator(f, logw, ll, r, theta) ==
    [f |-> f, logw |-> logw, logl |-> ll, r |-> r, theta |-> theta]

\* the float 0.0 where estimator values are stored (an entry of np.zeros)
ZeroEntry == estimator("", <<>>, <<>>, <<>>, <<>>)

\* mutant: theta taken from the column after the first parameter column
ColsAfter(rows, c) ==
    [j \in 1..Len(rows) |-> SubSeq(rows[j], c + 2, Len(rows[j]))]

\* lrxp[:, c:], the columns from c on (0-based) of every row
ColsFrom(rows, c) ==
    [j \in 1..Len(rows) |-> SubSeq(rows[j], c + 1, Len(rows[j]))]

\* for i, f in enumerate(estimator_list): output[i] = f.estimator(...)
\* from iteration i on (0-based); calls lists the invocations made, in order
RECURSIVE EstimatorLoop(_, _, _, _, _, _)
EstimatorLoop(output, calls, i, lrxp, logw, estimator_list) ==
    IF i >= Len(estimator_list) THEN [output |-> output, calls |-> calls]
    ELSE LET f == estimator_list[i + 1]
             value == estimator(f, logw, Col(lrxp, 0), Col(lrxp, 1),
                                ColsFrom(lrxp, 3))
         IN  EstimatorLoop([output EXCEPT ![i + 1] = value],
                           Append(calls, [slot |-> i, f |-> f]), i + 1,
                           lrxp, logw, estimator_list)

\* output = np.zeros(len(estimator_list)); the loop; return output
get_estimators(lrxp, logw, estimator_list) ==
    EstimatorLoop(Full(Len(estimator_list), 0), <<>>, 0, lrxp, logw,
                  estimator_list).output

\* simulate = kwargs.get('simulate', False); the random numbers g are read
\* by get_logw when simulate is set; lrxp[:, 0] on None is a TypeError
run_estimators(run, estimator_list, sim, g) ==
    LET lrxp == merge_lrxp(run.threads)
    IN  IF lrxp.isNone THEN Raised("TypeError")
        ELSE LET nlive == get_nlive(run, Col(lrxp.rows, 0))
             IN  IF nlive.err # "" THEN nlive
                 ELSE LET logw == get_logw(Col(lrxp.rows, 0), nlive.val,
                                           sim, g)
                      IN  IF logw.err # "" THEN Raised(logw.err)
                          ELSE Returned(get_estimators(lrxp.rows, logw.val,
                                                       estimator_list))

----------------------------------------------------------------------------
(* bootstrap_resample_run *)

\* np.random.randint(low, high, size): every array of size integers of
\* low..high-1.  A negative size is a ValueError, and so is low >= high;
\* with size = 0 and low >= high the numpy version decides between the
\* ValueError and an empty array.
randint(low, high, size) ==
    IF size < 0 THEN {Raised("ValueError")}
    ELSE IF low >= high
         THEN IF size = 0 THEN {Raised("ValueError"), Returned(<<>>)}
              ELSE {Raised("ValueError")}
         ELSE {Returned(a) : a \in [1..size -> low..(high - 1)]}

\* np.append(a, b) of two draws, the first failure ending the call
AppendDraws(a, b) ==
    IF a.err # "" THEN a
    ELSE IF b.err # "" THEN b
    ELSE Returned(a.val \o b.val)

\* mutant: one unstratified draw whatever the run and the argument
DrawIndsUnstratified(run, sep) ==
    randint(0, Len(run.threads), Len(run.threads))

\* the outcomes of drawing inds
DrawInds(run, sep) ==
    LET n_threads == Len(run.threads)
    IN  IF run.settings.dynamic_goal # "None" /\ sep
        THEN LET ninit == run.settings.nlive_1
             IN  {AppendDraws(a, b) :
                     a \in randint(0, ninit, ninit),
                     b \in randint(ninit, n_threads, n_threads - ninit)}
        ELSE randint(0, n_threads, n_threads)

\* mutant: the interval records are copied, not resampled
BuildTempRecordsCopied(run, d) ==
    IF d.err # "" THEN d
    ELSE IF "thread_logl_min_max" \notin DOMAIN run THEN Raised("KeyError")
    ELSE Returned([thread_logl_min_max |-> run.thread_logl_min_max,
                   settings |-> run.settings,
                   threads |-> [j \in 1..Len(d.val) |->
                                   run.threads[d.val[j] + 1]]])

\* mutant: the threads are copied, not resampled
BuildTempThreadsCopied(run, d) ==
    IF d.err # "" THEN d
    ELSE IF "thread_logl_min_max" \notin DOMAIN run THEN Raised("KeyError")
    ELSE Returned([thread_logl_min_max |->
                       Take(run.thread_logl_min_max, d.val),
                   settings |-> run.settings,
                   threads |-> run.threads])

\* the rest of the function, given the outcome d of the draw
BuildTemp(run, d) ==
    IF d.err # "" THEN d
    ELSE IF "thread_logl_min_max" \notin DOMAIN run THEN Raised("KeyError")
    ELSE Returned([thread_logl_min_max |->
                       Take(run.thread_logl_min_max, d.val),
                   settings |-> run.settings,
                   threads |-> Take(run.threads, d.val)])

----------------------------------------------------------------------------
(* Inputs *)

RECURSIVE SeqsUpTo(_, _)
SeqsUpTo(S, n) ==
    IF n = 0 THEN {<<>>}
    ELSE LET P == SeqsUpTo(S, n - 1)
         IN  P \cup {Append(s, x) : s \in {t \in P : Len(t) = n - 1}, x \in S}

IsAscending(s) == \A i \in 1..(Len(s) - 1) : s[i] <= s[i + 1]

LoglVals == 0..MaxLogl
\* values log(np.random.random()) may take (any float below 0)
LogUVals == {Rat(-1, 2), Rat(-2, 1)}
BoundVals == {NaN} \cup {Num(x) : x \in LoglVals}
MultVals == {1, 2}
Records == BoundVals \X BoundVals \X MultVals
DynGoals == {"None", "0", "1"}

\* the logl column of a merged table is ascending
LoglArrays == {s \in SeqsUpTo(LoglVals, MaxN) : IsAscending(s)}

SettingsSet == [dynamic_goal : DynGoals, nlive : 0..MaxNlive]

ExplicitRuns == {[nlive_array |-> a] : a \in SeqsUpTo(-1..2, MaxN)}
StandardRuns == {[settings |-> s] : s \in SettingsSet}
DynamicRuns == {[thread_logl_min_max |-> m] : m \in SeqsUpTo(Records, MaxRec)}

NliveIdle == run_dict = <<>> /\ logl = <<>> /\ nlive_out = Pending
MergeIdle == array_list = <<>> /\ lrxp_out = Pending /\ n_calls_out = Pending
RunIdle == ns_run = <<>>
BootIdle == sample_ninit_sep = TRUE /\ inds = <<>> /\ boot_out = Pending
EstIdle == est_out = Pending
CiIdle ==
    /\ n_simulate = 0 /\ cred_int = 0 /\ ci_pc = "idle" /\ ci_i = 0
    /\ ns_run_temp = <<>> /\ bs_values = <<>>
    /\ n_resampled = 0 /\ n_evaluated = 0 /\ ci_out = Pending

LsIdle == loga = RInt(0) /\ logb = RInt(0) /\ ls_out = Pending
WeightIdle ==
    /\ w_logl = <<>> /\ w_nlive = <<>> /\ simulate = FALSE /\ rng = <<>>
    /\ logx_out = Pending /\ logw_out = Pending
GeIdle ==
    /\ ge_lrxp = <<>> /\ ge_logw = <<>> /\ ge_list = <<>> /\ ge_out = Pending
ShellIdle ==
    /\ sh_fn = "" /\ sh_m = 0 /\ n_dim = 0
    /\ n_sample = [isNone |-> TRUE, v |-> 0]
    /\ sh_out = Pending
FsIdle == files = {} /\ clock = 0 /\ saved = <<>> /\ load_out = Pending
PureIdle == LsIdle /\ WeightIdle /\ GeIdle /\ ShellIdle /\ FsIdle
UncIdle ==
    /\ proc = "" /\ slot_writes = <<>> /\ sim_lrxp = None
    /\ sim_nlive = Pending

NliveInit ==
    /\ run_dict \in ExplicitRuns \cup StandardRuns \cup DynamicRuns
    /\ logl \in LoglArrays
    /\ nlive_out = Pending
    /\ MergeIdle /\ RunIdle /\ BootIdle /\ EstIdle /\ CiIdle
    /\ PureIdle /\ UncIdle

GetNlive ==
    /\ nlive_out = Pending
    /\ nlive_out' = get_nlive(run_dict, logl)
    /\ UNCHANGED <<run_dict, logl, mergeVars, ns_run, bootVars, est_out,
                   ciVars,
                   pureVars, uncVars>>

NliveNext == GetNlive

SpecNlive == NliveInit /\ [][NliveNext]_vars

\* get_nlive on a chain of contiguous records (NaN, t1, m), (t1, t2, m), ...,
\* (tk, NaN, m), followed by at most one further record
ChainVals == 0..MaxChain
ChainThresholds ==
    {t \in SeqsUpTo(ChainVals, MaxChain) :
        Len(t) >= 1 /\ \A j \in 1..(Len(t) - 1) : t[j] < t[j + 1]}
ChainRecords(t, m) ==
    [j \in 1..(Len(t) + 1) |->
        <<IF j = 1 THEN NaN ELSE Num(t[j - 1]),
          IF j = Len(t) + 1 THEN NaN ELSE Num(t[j]),
          m>>]

ChainInit ==
    /\ \E t \in ChainThresholds, m \in MultVals,
          extra \in SeqsUpTo(Records, 1) :
           run_dict = [thread_logl_min_max |-> ChainRecords(t, m) \o extra]
    /\ logl \in {s \in SeqsUpTo(ChainVals, MaxChainN) : IsAscending(s)}
    /\ nlive_out = Pending
    /\ MergeIdle /\ RunIdle /\ BootIdle /\ EstIdle /\ CiIdle
    /\ PureIdle /\ UncIdle

SpecChain == ChainInit /\ [][NliveNext]_vars

\* threads given to merge_lrxp: any order of logl inside a thread; column r
\* holds the position of the row in its thread, so that the rows of one thread
\* are distinct and two threads may hold equal rows
TagRows(ls) == [j \in 1..Len(ls) |-> <<ls[j], j, 0, 0>>]
MergeThreads ==
    {None} \cup {Arr(TagRows(ls)) : ls \in SeqsUpTo(LoglVals, MaxRows) \ {<<>>}}

MergeInit ==
    /\ array_list \in SeqsUpTo(MergeThreads, MaxThreads)
    /\ lrxp_out = Pending
    /\ n_calls_out = Pending
    /\ NliveIdle /\ RunIdle /\ BootIdle /\ EstIdle /\ CiIdle
    /\ PureIdle /\ UncIdle

MergeLrxp ==
    /\ lrxp_out = Pending
    /\ lrxp_out' = Returned(merge_lrxp(array_list))
    /\ UNCHANGED <<array_list, n_calls_out, nliveVars, ns_run, bootVars,
                   est_out, ciVars,
                   pureVars, uncVars>>

GetNCalls ==
    /\ n_calls_out = Pending
    /\ n_calls_out' = Returned(get_n_calls([threads |-> array_list]))
    /\ UNCHANGED <<array_list, lrxp_out, nliveVars, ns_run, bootVars,
                   est_out, ciVars,
                   pureVars, uncVars>>

MergeNext == MergeLrxp \/ GetNCalls

SpecMerge == MergeInit /\ [][MergeNext]_vars

----------------------------------------------------------------------------
(* Runs given to the bootstrap and estimator drivers *)

\* thread i of a run (i = 1..n) holds two rows, tagged i in column r, and its
\* interval record is unbounded below and ends at its last logl
Thr(i) == Arr(<< <<i - 1, i, 0, 0>>, <<i, i, 0, 0>> >>)
Rec(i) == <<NaN, Num(i), 1>>

ThreadLists(n) ==
    {ts \in [1..n -> {None} \cup {Thr(i) : i \in 1..n}] :
        \A i \in 1..n : ts[i] \in {None, Thr(i)}}
RecList(n) == [i \in 1..n |-> Rec(i)]

\* dynamic runs: 1 <= nlive_1 <= n_threads initial threads
DynamicNsRuns(n) ==
    {[threads |-> ts, thread_logl_min_max |-> RecList(n),
      settings |-> [dynamic_goal |-> g, nlive_1 |-> k, nlive |-> n]] :
        ts \in ThreadLists(n), g \in DynGoals \ {"None"}, k \in 1..n}

\* runs with dynamic_goal None, with and without interval records
FixedNsRuns(n) ==
    LET st == [dynamic_goal |-> "None", nlive_1 |-> n, nlive |-> n]
    IN  {[threads |-> ts, thread_logl_min_max |-> RecList(n),
          settings |-> st] : ts \in ThreadLists(n)}
        \cup {[threads |-> ts, settings |-> st] : ts \in ThreadLists(n)}

NsRuns(max) == UNION {DynamicNsRuns(n) \cup FixedNsRuns(n) : n \in 1..max}

EstimatorList == <<"logz", "theta1">>

BootInit ==
    /\ ns_run \in NsRuns(MaxBootThreads)
    /\ sample_ninit_sep \in BOOLEAN
    /\ inds = <<>>
    /\ boot_out = Pending
    /\ NliveIdle /\ MergeIdle /\ EstIdle /\ CiIdle
    /\ PureIdle /\ UncIdle

BootstrapResampleRun ==
    /\ boot_out = Pending
    /\ \E d \in DrawInds(ns_run, sample_ninit_sep) :
           /\ inds' = d.val
           /\ boot_out' = BuildTemp(ns_run, d)
    /\ UNCHANGED <<ns_run, sample_ninit_sep, nliveVars, mergeVars, est_out,
                   ciVars,
                   pureVars, uncVars>>

BootNext == BootstrapResampleRun

SpecBoot == BootInit /\ [][BootNext]_vars

----------------------------------------------------------------------------
(* The live counts of a resampled run: bootstrap_resample_run followed by  *)
(* the first lines of run_estimators on the resample                       *)

\* a thread (or None) together with its interval record
Pair(thread, record) == [thread |-> thread, record |-> record]
ThreadPairs ==
    {Pair(Arr(TagRows(<<0, 1>>)), <<NaN, Num(1), 1>>),
     Pair(Arr(TagRows(<<1, 2>>)), <<Num(0), NaN, 2>>),
     Pair(Arr(TagRows(<<1>>)), <<Num(0), Num(1), 1>>),
     Pair(Arr(TagRows(<<0>>)), <<Num(0), Num(1), 1>>),
     Pair(Arr(TagRows(<<1>>)), <<NaN, Num(2), 0>>),
     Pair(None, <<NaN, Num(0), 1>>),
     Pair(None, <<NaN, NaN, 1>>)}

PairedRuns ==
    UNION {{[threads |-> [j \in 1..n |-> ps[j].thread],
             thread_logl_min_max |-> [j \in 1..n |-> ps[j].record],
             settings |-> [dynamic_goal |-> g, nlive_1 |-> k, nlive |-> n]] :
               ps \in [1..n -> ThreadPairs], g \in DynGoals \ {"None"},
               k \in 1..n} : n \in 1..MaxPairs}

BootNliveInit ==
    /\ ns_run \in PairedRuns
    /\ sample_ninit_sep \in BOOLEAN
    /\ inds = <<>>
    /\ boot_out = Pending
    /\ NliveIdle /\ MergeIdle /\ EstIdle /\ CiIdle
    /\ PureIdle /\ UncIdle

\* run_estimators(ns_run_temp, ...) up to its call of get_nlive:
\* lrxp = merge_lrxp(ns_run['threads']); get_nlive(ns_run, lrxp[:, 0])
ResampleGetNlive ==
    /\ boot_out # Pending /\ boot_out.err = ""
    /\ nlive_out = Pending
    /\ LET lrxp == merge_lrxp(boot_out.val.threads)
       IN  /\ run_dict' = boot_out.val
           /\ IF lrxp.isNone
              THEN /\ logl' = logl
                   /\ nlive_out' = Raised("TypeError")
              ELSE /\ logl' = Col(lrxp.rows, 0)
                   /\ nlive_out' = get_nlive(boot_out.val, Col(lrxp.rows, 0))
    /\ UNCHANGED <<ns_run, sample_ninit_sep, inds, boot_out, mergeVars,
                   est_out, ciVars, pureVars, uncVars>>

BootNliveNext == BootstrapResampleRun \/ ResampleGetNlive

SpecBootNlive == BootNliveInit /\ [][BootNliveNext]_vars

\* the random numbers one call of get_logw may draw for n live counts: the
\* first MaxFreeDraws of them vary freely, the later ones repeat the last
\* free one
Streams(n) ==
    {g \in [1..n -> LogUVals] :
        \A i \in 1..n : i > MaxFreeDraws => g[i] = g[MaxFreeDraws]}

\* the number of rows of the merged table of the run
NSamples(run) ==
    LET lrxp == merge_lrxp(run.threads)
    IN  IF lrxp.isNone THEN 0 ELSE Len(lrxp.rows)

\* what is left of the generator's stream g after run_estimators: get_logw
\* is the only call that draws, and is reached when the merge and get_nlive
\* succeed
run_estimators_rng(run, sim, g) ==
    LET lrxp == merge_lrxp(run.threads)
    IN  IF lrxp.isNone THEN g
        ELSE LET nlive == get_nlive(run, Col(lrxp.rows, 0))
             IN  IF nlive.err # "" THEN g
                 ELSE get_logw(Col(lrxp.rows, 0), nlive.val, sim, g).rng

EstInit ==
    /\ ns_run \in NsRuns(MaxBootThreads)
    /\ est_out = Pending
    /\ simulate \in BOOLEAN
    /\ rng \in IF simulate THEN Streams(NSamples(ns_run)) ELSE {<<>>}
    /\ w_logl = <<>> /\ w_nlive = <<>>
    /\ logx_out = Pending /\ logw_out = Pending
    /\ NliveIdle /\ MergeIdle /\ BootIdle /\ CiIdle
    /\ LsIdle /\ GeIdle /\ ShellIdle /\ FsIdle /\ UncIdle

\* run_estimators(ns_run, estimator_list, simulate=simulate); the numbers
\* np.random.random gives when simulate is set are gone from the stream
RunEstimators ==
    /\ est_out = Pending
    /\ est_out' = run_estimators(ns_run, EstimatorList, simulate, rng)
    /\ rng' = run_estimators_rng(ns_run, simulate, rng)
    /\ UNCHANGED <<ns_run, nliveVars, mergeVars, bootVars, ciVars, lsVars,
                   w_logl, w_nlive, simulate, logx_out, logw_out, geVars,
                   shellVars, fsVars, uncVars>>

EstNext == RunEstimators

SpecEst == EstInit /\ [][EstNext]_vars

----------------------------------------------------------------------------
(* The doubles of run_ci_bootstrap: cred_int, 1. - cred_int, the product   *)
(* of the assertion and the cdf grid, with IEEE rounding to nearest even   *)

\* A double >= 0 is [m, e]: m its 53 significand bits, most significant
\* first, and e the exponent of m[1]; its value is the sum of
\* m[i] * 2^(e - i + 1).  m[1] = 1 except for zero.
DZero == [m |-> [i \in 1..53 |-> 0], e |-> -1075]
DOne == [m |-> [i \in 1..53 |-> IF i = 1 THEN 1 ELSE 0], e |-> 0]

\* a < b on doubles
DLt(a, b) ==
    \/ a.e < b.e
    \/ /\ a.e = b.e
       /\ \E i \in 1..53 : /\ a.m[i] < b.m[i]
                           /\ \A j \in 1..(i - 1) : a.m[j] = b.m[j]

\* the double nearest to the number with bits `bits` (bits[1] = 1, of
\* exponent e) followed by a non-zero tail when sticky; ties go to the even
\* significand
RoundBits(bits, e, sticky) ==
    LET L == Len(bits)
        kept == [i \in 1..53 |-> IF i <= L THEN bits[i] ELSE 0]
        guard == IF L >= 54 THEN bits[54] ELSE 0
        rest == sticky \/ \E i \in 55..L : bits[i] = 1
        up == guard = 1 /\ (rest \/ kept[53] = 1)
        zeros == {i \in 1..53 : kept[i] = 0}
    IN  IF ~up THEN [m |-> kept, e |-> e]
        ELSE IF zeros = {} THEN [m |-> DOne.m, e |-> e + 1]
        ELSE LET k == CHOOSE i \in zeros : \A j \in zeros : j <= i
             IN  [m |-> [i \in 1..53 |-> IF i < k THEN kept[i]
                                         ELSE IF i = k THEN 1 ELSE 0],
                  e |-> e]

\* p / q scaled by a power of two into [1, 2)
RECURSIVE ScaleQuotient(_, _, _)
ScaleQuotient(p, q, e) ==
    IF p < q THEN ScaleQuotient(2 * p, q, e - 1)
    ELSE IF p >= 2 * q THEN ScaleQuotient(p, 2 * q, e + 1)
    ELSE [p |-> p, q |-> q, e |-> e]

\* the double p / q for integers p >= 0, q > 0 that are doubles themselves:
\* 55 bits of the quotient by long division, 18 at a time, then rounded
DDiv(p, q) ==
    IF p = 0 THEN DZero
    ELSE LET s == ScaleQuotient(p, q, 0)
             r1 == s.p - s.q
             c2 == (r1 * 2^18) \div s.q
             r2 == (r1 * 2^18) % s.q
             c3 == (r2 * 2^18) \div s.q
             r3 == (r2 * 2^18) % s.q
             c4 == (r3 * 2^18) \div s.q
             r4 == (r3 * 2^18) % s.q
             bits == [i \in 1..55 |->
                         IF i = 1 THEN 1
                         ELSE IF i <= 19 THEN (c2 \div 2^(19 - i)) % 2
                         ELSE IF i <= 37 THEN (c3 \div 2^(37 - i)) % 2
                         ELSE (c4 \div 2^(55 - i)) % 2]
         IN  RoundBits(bits, s.e, r4 # 0)

\* the double 1. - d for a double 0 <= d <= 1: the fraction bits of 1 - d
\* down to the last bit of d, then rounded
DOneMinus(d) ==
    IF d = DZero THEN DOne
    ELSE IF d = DOne THEN DZero
    ELSE LET L == 52 - d.e
             frac == [j \in 1..L |-> IF j < -d.e THEN 0 ELSE d.m[j + d.e + 1]]
             k == CHOOSE j \in 1..L :
                      frac[j] = 1 /\ \A i \in (j + 1)..L : frac[i] = 0
             diff == [j \in 1..L |-> IF j < k THEN 1 - frac[j]
                                     ELSE IF j = k THEN 1 ELSE 0]
             t == CHOOSE j \in 1..L :
                      diff[j] = 1 /\ \A i \in 1..(j - 1) : diff[i] = 0
         IN  RoundBits(SubSeq(diff, t, L), -t, FALSE)

\* the bits of carry (> 0), most significant first
RECURSIVE CarryBits(_)
CarryBits(carry) ==
    IF carry = 0 THEN <<>> ELSE CarryBits(carry \div 2) \o <<carry % 2>>

\* the bits of m * n, from the last bit of m to the first
RECURSIVE TimesBits(_, _, _, _, _)
TimesBits(m, n, i, carry, acc) ==
    IF i = 0 THEN CarryBits(carry) \o acc
    ELSE TimesBits(m, n, i - 1, (m[i] * n + carry) \div 2,
                   <<(m[i] * n + carry) % 2>> \o acc)

\* the double d * n for a double d >= 0 and an integer n >= 1
DTimes(d, n) ==
    IF d = DZero THEN DZero
    ELSE LET bits == TimesBits(d.m, n, 53, 0, <<>>)
         IN  RoundBits(bits, d.e + (Len(bits) - 53), FALSE)

----------------------------------------------------------------------------
(* run_ci_bootstrap, one action per step of the function *)

\* cred_int in hundredths
CredInts == {5, 50, 95}
AllCredInts == 0..100

\* the double that the decimal c / 100 denotes
CredIntDouble(c) == DDiv(c, 100)

\* min(a, b) of Python: a unless b < a
DMin(a, b) == IF DLt(b, a) THEN b ELSE a

\* min(cred_int, 1. - cred_int) * n_simulate
AssertedProduct(c, n) ==
    DTimes(DMin(CredIntDouble(c), DOneMinus(CredIntDouble(c))), n)

\* mutant: the assertion written with >= 1
EnoughSamplesNonStrict(c, n) == ~DLt(AssertedProduct(c, n), DOne)

\* min(cred_int, 1. - cred_int) * n_simulate > 1
EnoughSamples(c, n) == DLt(DOne, AssertedProduct(c, n))

\* mutant: the column assigned to every slot of the matrix
WriteSlotBroadcast(matrix, i, column) ==
    [k \in 1..Len(matrix) |-> column]

\* bs_values[:, i] = column / all_values[:, i] = column (i 0-based; the
\* matrix is kept as the sequence of its columns)
WriteSlot(matrix, i, column) == [matrix EXCEPT ![i + 1] = column]

\* the multiples of 0.05 and 0.04, 0.96: among them every cred_int whose
\* product with some n_simulate is exactly 1 in decimals
ThresholdCredInts == {c \in AllCredInts : c % 5 = 0 \/ c \in {4, 96}}

\* runs of one thread: every resample of such a run is the run itself
CiInit ==
    /\ ns_run \in NsRuns(1)
    /\ n_simulate \in 1..MaxGridSim
    /\ cred_int \in ThresholdCredInts
    /\ ci_pc = "assert"
    /\ ci_i = 0
    /\ ns_run_temp = <<>>
    /\ bs_values = <<>>
    /\ n_resampled = 0
    /\ n_evaluated = 0
    /\ ci_out = Pending
    /\ NliveIdle /\ MergeIdle /\ BootIdle /\ EstIdle
    /\ PureIdle
    /\ proc = "run_ci_bootstrap"
    /\ slot_writes = <<>>
    /\ sim_lrxp = None
    /\ sim_nlive = Pending

\* the assertion, then bs_values = np.zeros(...)
CiAssert ==
    /\ proc = "run_ci_bootstrap"
    /\ ci_pc = "assert"
    /\ IF EnoughSamples(cred_int, n_simulate)
       THEN /\ ci_pc' = "resample"
            /\ bs_values' = [i \in 1..n_simulate |->
                                [e \in 1..Len(EstimatorList) |-> ZeroEntry]]
            /\ slot_writes' = Full(n_simulate, 0)
            /\ ci_out' = ci_out
       ELSE /\ ci_pc' = "raised"
            /\ ci_out' = Raised("AssertionError")
            /\ bs_values' = bs_values
            /\ slot_writes' = slot_writes
    /\ UNCHANGED <<ns_run, n_simulate, cred_int, ci_i, ns_run_temp,
                   n_resampled, n_evaluated, nliveVars, mergeVars, bootVars,
                   est_out,
                   pureVars, proc, sim_lrxp, sim_nlive>>

\* ns_run_temp = bootstrap_resample_run(ns_run)
CiResample ==
    /\ proc \in {"run_std_bootstrap", "run_ci_bootstrap"}
    /\ ci_pc = "resample"
    /\ ci_i < n_simulate
    /\ \E d \in DrawInds(ns_run, TRUE) :
           LET res == BuildTemp(ns_run, d)
           IN  IF res.err = ""
               THEN /\ ns_run_temp' = res.val
                    /\ ci_pc' = "estimate"
                    /\ ci_out' = ci_out
               ELSE /\ ns_run_temp' = ns_run_temp
                    /\ ci_pc' = "raised"
                    /\ ci_out' = res
    /\ n_resampled' = n_resampled + 1
    /\ UNCHANGED <<ns_run, n_simulate, cred_int, ci_i, bs_values,
                   n_evaluated, nliveVars, mergeVars, bootVars, est_out,
                   pureVars, uncVars>>

\* bs_values[:, i] = run_estimators(ns_run_temp, estimator_list)
\* del ns_run_temp
\* (run_std_bootstrap has the same loop, lines 217-220)
CiEstimate ==
    /\ proc \in {"run_std_bootstrap", "run_ci_bootstrap"}
    /\ ci_pc = "estimate"
    /\ LET res == run_estimators(ns_run_temp, EstimatorList, FALSE, <<>>)
       IN  IF res.err = ""
           THEN /\ bs_values' = WriteSlot(bs_values, ci_i, res.val)
                /\ slot_writes' = [slot_writes EXCEPT ![ci_i + 1] = @ + 1]
                /\ ns_run_temp' = <<>>
                /\ ci_i' = ci_i + 1
                /\ ci_pc' = "resample"
                /\ ci_out' = ci_out
           ELSE /\ ci_pc' = "raised"
                /\ ci_out' = res
                /\ UNCHANGED <<bs_values, ns_run_temp, ci_i, slot_writes>>
    /\ n_evaluated' = n_evaluated + 1
    /\ UNCHANGED <<ns_run, n_simulate, cred_int, n_resampled, nliveVars,
                   mergeVars, bootVars, est_out,
                   pureVars, proc, sim_lrxp, sim_nlive>>

\* expected_estimators = run_estimators(ns_run, estimator_list) and the
\* interval, kept as the term of the values it is computed from
CiFinish ==
    /\ proc = "run_ci_bootstrap"
    /\ ci_pc = "resample"
    /\ ci_i = n_simulate
    /\ LET res == run_estimators(ns_run, EstimatorList, FALSE, <<>>)
       IN  IF res.err = ""
           THEN /\ ci_pc' = "done"
                /\ ci_out' = Returned([expected_estimators |-> res.val,
                                       bs_values |-> bs_values,
                                       cred_int |-> cred_int])
           ELSE /\ ci_pc' = "raised"
                /\ ci_out' = res
    /\ n_evaluated' = n_evaluated + 1
    /\ UNCHANGED <<ns_run, n_simulate, cred_int, ci_i, ns_run_temp,
                   bs_values, n_resampled, nliveVars, mergeVars, bootVars,
                   est_out,
                   pureVars, uncVars>>

CiNext == CiAssert \/ CiResample \/ CiEstimate \/ CiFinish

SpecCi == CiInit /\ [][CiNext]_vars

----------------------------------------------------------------------------
(* run_ci_bootstrap: the assertion and the grid of the interpolation, for  *)
(* every cred_int in hundredths                                            *)

\* mutant: the grid of the upper ends of the steps, (i + 1) / n
CdfGridStepEnds(n) == [i \in 1..n |-> DDiv(i, n)]

\* cdf = (np.asarray(range(bs_values.shape[1])) + 0.5) / bs_values.shape[1]
\* (i + 0.5 is exact, so the entry is the double (2 i + 1) / (2 n))
CdfGrid(n) == [i \in 1..n |-> DDiv(2 * (i - 1) + 1, 2 * n)]

\* 1. - cred_int
EvalPoint(c) == DOneMinus(CredIntDouble(c))

\* np.interp(x, xp, fp), by the entries of fp it reads: fp[0] when x is
\* below xp[0], fp[-1] when x is above xp[-1], and otherwise the entries
\* lo, hi (0-based) of the grid interval that holds x
np_interp(x, xp) ==
    LET n == Len(xp)
    IN  IF DLt(x, xp[1])
        THEN [clamp |-> "left", lo |-> 0, hi |-> 0]
        ELSE IF DLt(xp[n], x)
        THEN [clamp |-> "right", lo |-> n - 1, hi |-> n - 1]
        ELSE IF x = xp[n]
        THEN [clamp |-> "", lo |-> n - 1, hi |-> n - 1]
        ELSE LET j == CHOOSE k \in 1..(n - 1) :
                          ~DLt(x, xp[k]) /\ DLt(x, xp[k + 1])
             IN  [clamp |-> "", lo |-> j - 1, hi |-> j]

CdfInit ==
    /\ n_simulate \in 1..MaxGridSim
    /\ cred_int \in AllCredInts
    /\ ci_pc = "idle" /\ ci_i = 0
    /\ ns_run_temp = <<>> /\ bs_values = <<>>
    /\ n_resampled = 0 /\ n_evaluated = 0 /\ ci_out = Pending
    /\ NliveIdle /\ MergeIdle /\ RunIdle /\ BootIdle /\ EstIdle
    /\ PureIdle /\ UncIdle

\* the assertion of run_ci_bootstrap and the entries of the sorted
\* replicates its interpolation reads
CiInterp ==
    /\ ci_out = Pending
    /\ ci_out' = IF EnoughSamples(cred_int, n_simulate)
                 THEN Returned(np_interp(EvalPoint(cred_int),
                                         CdfGrid(n_simulate)))
                 ELSE Raised("AssertionError")
    /\ UNCHANGED <<n_simulate, cred_int, ci_pc, ci_i, ns_run_temp, bs_values,
                   n_resampled, n_evaluated, nliveVars, mergeVars, ns_run,
                   bootVars, est_out, pureVars, uncVars>>

CdfNext == CiInterp

SpecCdf == CdfInit /\ [][CdfNext]_vars

----------------------------------------------------------------------------
(* run_std_simulate, run_std_bootstrap and run_ci_bootstrap with the       *)
(* bodies of their loops as actions of their own: iteration i is the body  *)
(* run with index i and with the random numbers rng[i + 1].  The for loop  *)
(* of the code runs the bodies for i = 0, 1, ..., n_simulate - 1, each to  *)
(* its end before the next; the actions allow every other order and        *)
(* interleaving of the bodies as well.                                     *)

Procedures == {"run_std_simulate", "run_std_bootstrap", "run_ci_bootstrap"}

\* the local ns_run_temp of an iteration: unbound (before the assignment,
\* after del) or bound to a resampled run
NoTemp == [isNone |-> TRUE, run |-> <<>>]
Temp(run) == [isNone |-> FALSE, run |-> run]

\* runs of one thread, and runs of two present threads with their interval
\* records: fixed ones (resampled in one draw of two) and dynamic ones with
\* one initial thread
LoopRuns ==
    NsRuns(1)
    \cup {r \in FixedNsRuns(2) \cup DynamicNsRuns(2) :
             /\ "thread_logl_min_max" \in DOMAIN r
             /\ \A t \in 1..2 : ~r.threads[t].isNone
             /\ r.settings.dynamic_goal \in {"None", "0"}
             /\ r.settings.dynamic_goal = "0" => r.settings.nlive_1 = 1}

\* the random numbers of one iteration of run_std_simulate: one value of
\* the generator repeated, a different one from iteration to iteration
LoopStreams(n) == {[i \in 1..n |-> u] : u \in LogUVals}

\* the thread indices one iteration of a bootstrap loop draws, those in
\* ascending order: one per multiset of threads picked
LoopDraws(run) ==
    {d \in DrawInds(run, TRUE) :
        d.err = "" => \A i \in 1..(Len(d.val) - 1) : d.val[i] <= d.val[i + 1]}

UncInit ==
    /\ proc \in Procedures
    /\ ns_run \in LoopRuns
    /\ n_simulate \in 1..MaxSim
    /\ cred_int \in IF proc = "run_ci_bootstrap" THEN CredInts ELSE {0}
    /\ ci_pc = IF proc = "run_ci_bootstrap" THEN "assert" ELSE "start"
    /\ ci_i = 0
    /\ ns_run_temp = [i \in 1..n_simulate |-> NoTemp]
    /\ rng \in [1..n_simulate ->
                   IF proc = "run_std_simulate"
                   THEN LoopStreams(NSamples(ns_run))
                   ELSE LoopDraws(ns_run)]
    /\ bs_values = <<>>
    /\ n_resampled = 0
    /\ n_evaluated = 0
    /\ ci_out = Pending
    /\ slot_writes = <<>>
    /\ sim_lrxp = None
    /\ sim_nlive = Pending
    /\ simulate = FALSE /\ w_logl = <<>> /\ w_nlive = <<>>
    /\ logx_out = Pending /\ logw_out = Pending
    /\ NliveIdle /\ MergeIdle /\ BootIdle /\ EstIdle
    /\ LsIdle /\ GeIdle /\ ShellIdle /\ FsIdle

\* iteration i, first statement of the body of the bootstrap loops:
\* ns_run_temp = bootstrap_resample_run(ns_run)
LoopResample ==
    /\ proc \in {"run_std_bootstrap", "run_ci_bootstrap"}
    /\ ci_pc = "resample"
    /\ \E i \in 0..(n_simulate - 1) :
        /\ slot_writes[i + 1] = 0
        /\ ns_run_temp[i + 1].isNone
        /\ LET res == BuildTemp(ns_run, rng[i + 1])
           IN  IF res.err = ""
               THEN /\ ns_run_temp' =
                          [ns_run_temp EXCEPT ![i + 1] = Temp(res.val)]
                    /\ UNCHANGED <<ci_pc, ci_out>>
               ELSE /\ ns_run_temp' = ns_run_temp
                    /\ ci_pc' = "raised"
                    /\ ci_out' = res
    /\ n_resampled' = n_resampled + 1
    /\ UNCHANGED <<ns_run, n_simulate, cred_int, ci_i, bs_values,
                   n_evaluated, nliveVars, mergeVars, bootVars, est_out,
                   pureVars, uncVars>>

\* iteration i, rest of the body of the bootstrap loops:
\* bs_values[:, i] = run_estimators(ns_run_temp, estimator_list)
\* del ns_run_temp
LoopEstimate ==
    /\ proc \in {"run_std_bootstrap", "run_ci_bootstrap"}
    /\ ci_pc = "resample"
    /\ \E i \in 0..(n_simulate - 1) :
        /\ ~ns_run_temp[i + 1].isNone
        /\ LET res == run_estimators(ns_run_temp[i + 1].run, EstimatorList,
                                     FALSE, <<>>)
           IN  IF res.err = ""
               THEN /\ bs_values' = WriteSlot(bs_values, i, res.val)
                    /\ slot_writes' = [slot_writes EXCEPT ![i + 1] = @ + 1]
                    /\ ns_run_temp' = [ns_run_temp EXCEPT ![i + 1] = NoTemp]
                    /\ ci_i' = ci_i + 1
                    /\ UNCHANGED <<ci_pc, ci_out>>
               ELSE /\ ci_pc' = "raised"
                    /\ ci_out' = res
                    /\ UNCHANGED <<bs_values, ns_run_temp, ci_i, slot_writes>>
    /\ n_evaluated' = n_evaluated + 1
    /\ UNCHANGED <<ns_run, n_simulate, cred_int, n_resampled, nliveVars,
                   mergeVars, bootVars, est_out,
                   pureVars, proc, sim_lrxp, sim_nlive>>

\* iteration i, body of the loop of run_std_simulate:
\* logw = get_logw(lrxp[:, 0], nlive, simulate=True);
\* all_values[:, i] = get_estimators(lrxp, logw, estimator_list)
LoopSimulate ==
    /\ proc = "run_std_simulate"
    /\ ci_pc = "simulate"
    /\ \E i \in 0..(n_simulate - 1) :
        /\ slot_writes[i + 1] = 0
        /\ LET logw == get_logw(Col(sim_lrxp.rows, 0), sim_nlive.val, TRUE,
                                rng[i + 1])
           IN  IF logw.err = ""
               THEN /\ bs_values' =
                          WriteSlot(bs_values, i,
                                    get_estimators(sim_lrxp.rows, logw.val,
                                                   EstimatorList))
                    /\ slot_writes' = [slot_writes EXCEPT ![i + 1] = @ + 1]
                    /\ ci_i' = ci_i + 1
                    /\ UNCHANGED <<ci_pc, ci_out>>
               ELSE /\ ci_pc' = "raised"
                    /\ ci_out' = Raised(logw.err)
                    /\ UNCHANGED <<bs_values, slot_writes, ci_i>>
    /\ n_evaluated' = n_evaluated + 1
    /\ UNCHANGED <<ns_run, n_simulate, cred_int, ns_run_temp, n_resampled,
                   nliveVars, mergeVars, bootVars, est_out, pureVars, proc,
                   sim_lrxp, sim_nlive>>

\* run_std_bootstrap: bs_values = np.zeros((len(estimator_list), n_simulate))
StdBootStart ==
    /\ proc = "run_std_bootstrap"
    /\ ci_pc = "start"
    /\ ci_pc' = "resample"
    /\ bs_values' = [i \in 1..n_simulate |->
                        [e \in 1..Len(EstimatorList) |-> ZeroEntry]]
    /\ slot_writes' = Full(n_simulate, 0)
    /\ UNCHANGED <<ns_run, n_simulate, cred_int, ci_i, ns_run_temp,
                   n_resampled, n_evaluated, ci_out, nliveVars, mergeVars,
                   bootVars, est_out, pureVars, proc, sim_lrxp, sim_nlive>>

\* run_std_bootstrap: the standard deviation of every row of bs_values, kept
\* as the term of the matrix it is computed from
StdBootFinish ==
    /\ proc = "run_std_bootstrap"
    /\ ci_pc = "resample"
    /\ ci_i = n_simulate
    /\ ci_pc' = "done"
    /\ ci_out' = Returned([stds_of |-> bs_values])
    /\ UNCHANGED <<ns_run, n_simulate, cred_int, ci_i, ns_run_temp,
                   bs_values, n_resampled, n_evaluated, nliveVars,
                   mergeVars, bootVars, est_out, pureVars, uncVars>>

\* run_std_simulate: all_values = np.zeros(...); lrxp = merge_lrxp(...);
\* nlive = get_nlive(ns_run, lrxp[:, 0])   (lrxp[:, 0] on None: TypeError)
SimStart ==
    /\ proc = "run_std_simulate"
    /\ ci_pc = "start"
    /\ LET lrxp == merge_lrxp(ns_run.threads)
           nlive == IF lrxp.isNone THEN Raised("TypeError")
                    ELSE get_nlive(ns_run, Col(lrxp.rows, 0))
       IN  /\ bs_values' = [i \in 1..n_simulate |->
                               [e \in 1..Len(EstimatorList) |-> ZeroEntry]]
           /\ slot_writes' = Full(n_simulate, 0)
           /\ sim_lrxp' = lrxp
           /\ IF nlive.err = ""
              THEN /\ sim_nlive' = nlive
                   /\ ci_pc' = "simulate"
                   /\ ci_out' = ci_out
              ELSE /\ sim_nlive' = sim_nlive
                   /\ ci_pc' = "raised"
                   /\ ci_out' = nlive
    /\ UNCHANGED <<ns_run, n_simulate, cred_int, ci_i, ns_run_temp,
                   n_resampled, n_evaluated, nliveVars, mergeVars, bootVars,
                   est_out, pureVars, proc>>

\* run_std_simulate: the standard deviation of every row of all_values, and
\* the matrix too when return_values is set
SimFinish ==
    /\ proc = "run_std_simulate"
    /\ ci_pc = "simulate"
    /\ ci_i = n_simulate
    /\ ci_pc' = "done"
    /\ \E return_values \in BOOLEAN :
           ci_out' = IF return_values
                     THEN Returned([stds_of |-> bs_values,
                                    all_values |-> bs_values])
                     ELSE Returned([stds_of |-> bs_values])
    /\ UNCHANGED <<ns_run, n_simulate, cred_int, ci_i, ns_run_temp,
                   bs_values, n_resampled, n_evaluated, nliveVars,
                   mergeVars, bootVars, est_out, pureVars, uncVars>>

UncNext ==
    \/ CiAssert \/ StdBootStart \/ SimStart
    \/ LoopResample \/ LoopEstimate \/ LoopSimulate
    \/ CiFinish \/ StdBootFinish \/ SimFinish

SpecUnc == UncInit /\ [][UncNext]_vars

----------------------------------------------------------------------------
(* log_subtract on its own *)

LsVals == {Rat(n, d) : n \in (-MaxLs)..MaxLs, d \in 1..MaxDen}

LsInit ==
    /\ loga \in LsVals
    /\ logb \in LsVals
    /\ ls_out = Pending
    /\ NliveIdle /\ MergeIdle /\ RunIdle /\ BootIdle /\ EstIdle /\ CiIdle
    /\ WeightIdle /\ GeIdle /\ ShellIdle /\ FsIdle /\ UncIdle

LogSubtract ==
    /\ ls_out = Pending
    /\ ls_out' = Returned(log_subtract(loga, logb))
    /\ UNCHANGED <<loga, logb, nliveVars, mergeVars, ns_run, bootVars,
                   est_out, ciVars, weightVars, geVars, shellVars, fsVars,
                   uncVars>>

LsNext == LogSubtract

SpecLogSub == LsInit /\ [][LsNext]_vars

----------------------------------------------------------------------------
(* get_logx and get_logw on their own *)

\* entries of nlive_array: one that fails the assertion and two live counts
WNliveVals == {0, 1, 2}

\* the numbers np.random's generator will give to the next calls, enough
\* for one call of get_logx and one of get_logw on n live counts: the first
\* MaxWDraws of them vary freely, the later ones repeat the last free one
WeightStreams(n) ==
    {g \in [1..(2 * n) -> LogUVals] :
        \A i \in 1..(2 * n) : i > MaxWDraws => g[i] = g[MaxWDraws]}

WeightInit ==
    /\ \E N \in 0..MaxW :
        /\ w_nlive \in [1..N -> WNliveVals]
        /\ w_logl \in {s \in [1..N -> LoglVals] : IsAscending(s)}
        /\ simulate \in BOOLEAN
        /\ rng \in IF simulate THEN WeightStreams(N) ELSE {<<>>}
    /\ logx_out = Pending
    /\ logw_out = Pending
    /\ NliveIdle /\ MergeIdle /\ RunIdle /\ BootIdle /\ EstIdle /\ CiIdle
    /\ LsIdle /\ GeIdle /\ ShellIdle /\ FsIdle /\ UncIdle

\* get_logx(nlive_array, simulate=simulate); the numbers it draws are gone
\* from the generator's stream
GetLogx ==
    /\ logx_out = Pending
    /\ logx_out' = get_logx(w_nlive, simulate, rng)
    /\ rng' = get_logx(w_nlive, simulate, rng).rng
    /\ UNCHANGED <<w_logl, w_nlive, simulate, logw_out, nliveVars,
                   mergeVars, ns_run, bootVars, est_out, ciVars, lsVars,
                   geVars, shellVars, fsVars, uncVars>>

\* get_logw(logl, nlive_array, simulate=simulate); the numbers it draws are
\* gone from the generator's stream
GetLogw ==
    /\ logw_out = Pending
    /\ logw_out' = get_logw(w_logl, w_nlive, simulate, rng)
    /\ rng' = get_logw(w_logl, w_nlive, simulate, rng).rng
    /\ UNCHANGED <<w_logl, w_nlive, simulate, logx_out, nliveVars,
                   mergeVars, ns_run, bootVars, est_out, ciVars, lsVars,
                   geVars, shellVars, fsVars, uncVars>>

WeightNext == GetLogx \/ GetLogw

SpecWeights == WeightInit /\ [][WeightNext]_vars

----------------------------------------------------------------------------
(* get_estimators on its own *)

\* a table of n rows and w columns with a different number in every cell
\* (column 0, logl, ascending)
Cell(j, c) == (j - 1) * MaxCols + c
Table(n, w) == [j \in 1..n |-> [c \in 1..w |-> Cell(j, c)]]
EstimatorNames == {"logz", "theta1"}

GeInit ==
    /\ \E n \in 0..MaxRows :
        /\ ge_lrxp \in {Table(n, w) : w \in 3..MaxCols}
        /\ ge_logw \in [1..n -> {LogNum(RInt(0)), LogNum(RInt(-1))}]
    /\ ge_list \in SeqsUpTo(EstimatorNames, MaxEst)
    /\ ge_out = Pending
    /\ NliveIdle /\ MergeIdle /\ RunIdle /\ BootIdle /\ EstIdle /\ CiIdle
    /\ LsIdle /\ WeightIdle /\ ShellIdle /\ FsIdle /\ UncIdle

GetEstimators ==
    /\ ge_out = Pending
    /\ ge_out' = Returned(EstimatorLoop(Full(Len(ge_list), 0), <<>>, 0,
                                        ge_lrxp, ge_logw, ge_list))
    /\ UNCHANGED <<ge_lrxp, ge_logw, ge_list, nliveVars, mergeVars, ns_run,
                   bootVars, est_out, ciVars, lsVars, weightVars, shellVars,
                   fsVars, uncVars>>

GeNext == GetEstimators

SpecGe == GeInit /\ [][GeNext]_vars

----------------------------------------------------------------------------
(* sample_nsphere_shells and its two samplers (maths_functions.py); an     *)
(* array is modelled by its shape <<rows, columns>>                        *)

\* n_dim from which sample_nsphere_shells uses the beta sampler
BetaDimThreshold == 100

\* the argument n_sample: None or an integer
NoSample == [isNone |-> TRUE, v |-> 0]
Sample(k) == [isNone |-> FALSE, v |-> k]

\* if n_sample is None: n_sample = n_dim
DefaultSample(ns, nd) == IF ns.isNone THEN nd ELSE ns.v

\* np.random.beta(0.5, (n_dim - 1) * 0.5, size=(r.shape[0], n_sample)) is a
\* ValueError when its second parameter is not > 0
sample_nsphere_shells_beta(m, nd, ns) ==
    IF ~(nd - 1 > 0) THEN Raised("ValueError")
    ELSE Returned(<<m, DefaultSample(ns, nd)>>)

\* the assertion n_sample <= n_dim stands inside the branch that has just
\* set n_sample = n_dim; thetas[:, :n_sample] of an (m, n_dim) array has
\* min(n_sample, n_dim) columns
sample_nsphere_shells_normal(m, nd, ns) ==
    IF ns.isNone /\ ~(DefaultSample(ns, nd) <= nd)
    THEN Raised("AssertionError")
    ELSE LET k == DefaultSample(ns, nd)
         IN  Returned(<<m, IF k <= nd THEN k ELSE nd>>)

\* n_dim >= 100 and n_sample == 1 (None == 1 is False)
UsesBeta(nd, ns) == nd >= BetaDimThreshold /\ ~ns.isNone /\ ns.v = 1

sample_nsphere_shells(m, nd, ns) ==
    IF UsesBeta(nd, ns) THEN sample_nsphere_shells_beta(m, nd, ns)
    ELSE sample_nsphere_shells_normal(m, nd, ns)

ShellFunctions ==
    {"sample_nsphere_shells", "sample_nsphere_shells_normal",
     "sample_nsphere_shells_beta"}
ShellDims ==
    (1..MaxShellDim)
        \cup {BetaDimThreshold - 1, BetaDimThreshold, BetaDimThreshold + 1}
ShellSamples == {NoSample} \cup {Sample(k) : k \in 1..(MaxShellDim + 1)}

ShellInit ==
    /\ sh_fn \in ShellFunctions
    /\ sh_m \in 0..MaxShellM
    /\ n_dim \in ShellDims
    /\ n_sample \in ShellSamples
    /\ sh_out = Pending
    /\ NliveIdle /\ MergeIdle /\ RunIdle /\ BootIdle /\ EstIdle /\ CiIdle
    /\ LsIdle /\ WeightIdle /\ GeIdle /\ FsIdle /\ UncIdle

SampleShells ==
    /\ sh_out = Pending
    /\ sh_out' =
         CASE sh_fn = "sample_nsphere_shells" ->
                  sample_nsphere_shells(sh_m, n_dim, n_sample)
           [] sh_fn = "sample_nsphere_shells_normal" ->
                  sample_nsphere_shells_normal(sh_m, n_dim, n_sample)
           [] sh_fn = "sample_nsphere_shells_beta" ->
                  sample_nsphere_shells_beta(sh_m, n_dim, n_sample)
    /\ UNCHANGED <<sh_fn, sh_m, n_dim, n_sample, nliveVars, mergeVars,
                   ns_run, bootVars, est_out, ciVars, lsVars, weightVars,
                   geVars, fsVars, uncVars>>

ShellNext == SampleShells

SpecShells == ShellInit /\ [][ShellNext]_vars

----------------------------------------------------------------------------
(* pickle_save and pickle_load (save_load_utils.py).  A file is a record   *)
(* [name, stamp, data]: path + name + extension has stamp NoStamp, and     *)
(* path + name + "_" + time.asctime() + extension has as stamp the second  *)
(* the clock showed; no two files have the same name and stamp.            *)

NoStamp == [stamped |-> FALSE, at |-> 0]
Stamp(now) == [stamped |-> TRUE, at |-> now]
SaveNames == {"a", "b"}

\* os.path.isfile(path + name + extension)
isfile(fs, name) == \E f \in fs : f.name = name /\ f.stamp = NoStamp

\* the file name pickle_save writes to
SaveStamp(fs, name, now) ==
    IF isfile(fs, name) THEN Stamp(now) ELSE NoStamp

\* open(filename, 'wb'); pickle.dump(data, outfile): the file is created or
\* its old content replaced
pickle_save(fs, data, name, now) ==
    LET stamp == SaveStamp(fs, name, now)
    IN  {f \in fs : ~(f.name = name /\ f.stamp = stamp)}
            \cup {[name |-> name, stamp |-> stamp, data |-> data]}

\* open(path + name + extension, 'rb'); pickle.load(infile)
pickle_load(fs, name) ==
    IF isfile(fs, name)
    THEN Returned((CHOOSE f \in fs : f.name = name /\ f.stamp = NoStamp).data)
    ELSE Raised("FileNotFoundError")

FsInit ==
    /\ files = {}
    /\ clock = 0
    /\ saved = <<>>
    /\ load_out = Pending
    /\ NliveIdle /\ MergeIdle /\ RunIdle /\ BootIdle /\ EstIdle /\ CiIdle
    /\ LsIdle /\ WeightIdle /\ GeIdle /\ ShellIdle /\ UncIdle

\* pickle_save(data, name); the k-th object saved is the number k
PickleSave ==
    /\ Len(saved) < MaxSaves
    /\ \E name \in SaveNames :
        /\ files' = pickle_save(files, Len(saved) + 1, name, clock)
        /\ saved' = Append(saved, [name |-> name, data |-> Len(saved) + 1])
    /\ UNCHANGED <<clock, load_out, nliveVars, mergeVars, ns_run, bootVars,
                   est_out, ciVars, lsVars, weightVars, geVars, shellVars,
                   uncVars>>

\* pickle_load(name)
PickleLoad ==
    /\ \E name \in SaveNames :
           load_out' = [err |-> pickle_load(files, name).err,
                        val |-> pickle_load(files, name).val,
                        name |-> name]
    /\ UNCHANGED <<files, clock, saved, nliveVars, mergeVars, ns_run,
                   bootVars, est_out, ciVars, lsVars, weightVars, geVars,
                   shellVars, uncVars>>

\* a second passes
Tick ==
    /\ clock < MaxClock
    /\ clock' = clock + 1
    /\ UNCHANGED <<files, saved, load_out, nliveVars, mergeVars, ns_run,
                   bootVars, est_out, ciVars, lsVars, weightVars, geVars,
                   shellVars, uncVars>>

FsNext == PickleSave \/ PickleLoad \/ Tick

SpecFs == FsInit /\ [][FsNext]_vars

----------------------------------------------------------------------------
(* Claims about get_nlive, checked under SpecNlive *)

Called == nlive_out # Pending
IsExplicit == "nlive_array" \in DOMAIN run_dict
IsStandard == ~IsExplicit /\ "thread_logl_min_max" \notin DOMAIN run_dict
IsDynamic == ~IsExplicit /\ "thread_logl_min_max" \in DOMAIN run_dict

\* the interval of record r contains the sample value l
Contains(r, l) ==
    CASE r[1].nan /\ ~r[2].nan -> l <= r[2].v
      [] ~r[1].nan /\ r[2].nan -> l > r[1].v
      [] ~r[1].nan /\ ~r[2].nan -> r[1].v < l /\ l <= r[2].v
      [] OTHER -> FALSE

\* sum of multiplicity over the occurrences k..Len(recs) that contain l
RECURSIVE StabSum(_, _, _)
StabSum(recs, k, l) ==
    IF k > Len(recs) THEN 0
    ELSE (IF Contains(recs[k], l) THEN recs[k][3] ELSE 0)
         + StabSum(recs, k + 1, l)

NoNeitherRecord ==
    \A k \in 1..Len(run_dict.thread_logl_min_max) :
        ~IsNeither(run_dict.thread_logl_min_max[k])

\* C1: for a dynamic run without a record that has both bounds NaN, the array
\* get_nlive returns holds at every sample index i the sum of multiplicity
\* over all record occurrences whose interval contains logl[i] (and it does
\* return that array whenever all these sums are positive and there is at
\* least one sample).
C1_DynamicNliveIsStabbingSum ==
    (Called /\ IsDynamic /\ NoNeitherRecord) =>
        LET want == [i \in 1..Len(logl) |->
                        StabSum(run_dict.thread_logl_min_max, 1, logl[i])]
        IN  /\ nlive_out.err = "" => nlive_out.val = want
            /\ (Len(logl) > 0 /\ \A i \in 1..Len(logl) : want[i] > 0)
                   => nlive_out = Returned(want)

\* a bounded record is counted at a sample equal to its logl_max and not at
\* a sample equal to its logl_min
C1_Witness ==
    /\ Called /\ IsDynamic /\ NoNeitherRecord
    /\ run_dict.thread_logl_min_max
           = << <<NaN, Num(1), 1>>, <<Num(0), Num(1), 2>> >>
    /\ logl = <<0, 1>>
    /\ nlive_out = Returned(<<1, 3>>)

\* the array get_nlive computed or was given, before the final assertion
\* (none when an earlier error ended the call)
Candidate ==
    IF IsExplicit THEN Returned(run_dict.nlive_array)
    ELSE IF IsStandard THEN
        IF run_dict.settings.dynamic_goal # "None" THEN Raised("AssertionError")
        ELSE RampDown(Full(Len(logl), run_dict.settings.nlive), 1,
                      run_dict.settings.nlive)
    ELSE IF NoNeitherRecord
         THEN Returned(DynamicNlive(run_dict.thread_logl_min_max, logl))
         ELSE Raised("AssertionError")

\* C2: in all three input cases an array returned by get_nlive has only
\* entries > 0, and when the array computed or given has an entry <= 0 the
\* call raises and returns no array.
C2_ReturnedNliveStrictlyPositive ==
    Called =>
        /\ nlive_out.err = "" =>
               \A i \in 1..Len(nlive_out.val) : nlive_out.val[i] > 0
        /\ (Candidate.err = ""
            /\ \E i \in 1..Len(Candidate.val) : Candidate.val[i] <= 0)
               => (nlive_out.err # "" /\ nlive_out.val = <<>>)

\* a dynamic run whose records leave one sample uncovered: the call raises
C2_Witness ==
    /\ Called /\ IsDynamic /\ NoNeitherRecord
    /\ run_dict.thread_logl_min_max = << <<Num(0), NaN, 1>> >>
    /\ logl = <<0, 1>>
    /\ Candidate.val = <<0, 1>>
    /\ nlive_out.err = "AssertionError"

\* some record of the dynamic run has NaN for logl_min and for logl_max
HasBothNaNRecord ==
    \E k \in 1..Len(run_dict.thread_logl_min_max) :
        /\ run_dict.thread_logl_min_max[k][1].nan
        /\ run_dict.thread_logl_min_max[k][2].nan

\* C11: a dynamic call of get_nlive with at least one record whose logl_min
\* and logl_max are both NaN raises and returns no array, whatever the
\* other records are.
C11_BothNaNRecordRaises ==
    (Called /\ IsDynamic /\ HasBothNaNRecord) =>
        nlive_out = Raised("AssertionError")

\* a both-NaN record next to a record that alone gives every sample a
\* positive count: the call still raises
C11_Witness ==
    /\ Called /\ IsDynamic
    /\ run_dict.thread_logl_min_max
           = << <<NaN, Num(1), 1>>, <<NaN, NaN, 1>> >>
    /\ logl = <<0, 1>>
    /\ DynamicNlive(run_dict.thread_logl_min_max, logl) = <<1, 1>>
    /\ nlive_out = Raised("AssertionError")

Min2(a, b) == IF a <= b THEN a ELSE b

IsStandardCall ==
    /\ Called /\ IsStandard
    /\ run_dict.settings.dynamic_goal = "None"
    /\ run_dict.settings.nlive >= 1
    /\ Len(logl) >= 1

\* min(k, N - j) at 0-based index j, which is entry j + 1 here
RampSpec(k, N) == [p \in 1..N |-> Min2(k, N - (p - 1))]

\* C10 as stated: for every N >= 1 and k >= 1, N smaller than k - 1 included,
\* get_nlive returns min(k, N - j) at every 0-based index j.
C10_Original ==
    IsStandardCall =>
        nlive_out = Returned(RampSpec(run_dict.settings.nlive, Len(logl)))

\* C10 amended: for N >= k - 1 get_nlive returns min(k, N - j) at every
\* 0-based index j; for N < k - 1 it raises IndexError and returns no array.
C10_StandardRampDown ==
    IsStandardCall =>
        IF Len(logl) >= run_dict.settings.nlive - 1
        THEN nlive_out = Returned(RampSpec(run_dict.settings.nlive, Len(logl)))
        ELSE nlive_out = Raised("IndexError")

\* two samples and three live points: the ramp covers the whole array
C10_Witness ==
    /\ IsStandardCall
    /\ Len(logl) = 2
    /\ run_dict.settings.nlive = 3
    /\ nlive_out = Returned(<<2, 1>>)

----------------------------------------------------------------------------
(* Claims about merge_lrxp and get_n_calls, checked under SpecMerge *)

Merged == lrxp_out.err = ""
SomePresent == \E t \in 1..Len(array_list) : ~array_list[t].isNone

\* number of occurrences of row x in a table
Occurrences(rows, x) == Cardinality({j \in 1..Len(rows) : rows[j] = x})

\* number of occurrences of row x in the threads t..Len(threads)
RECURSIVE OccurrencesInThreads(_, _, _)
OccurrencesInThreads(threads, t, x) ==
    IF t > Len(threads) THEN 0
    ELSE Occurrences(threads[t].rows, x)
         + OccurrencesInThreads(threads, t + 1, x)

RowsOf(rows) == {rows[j] : j \in 1..Len(rows)}
ThreadRows == UNION {RowsOf(array_list[t].rows) : t \in 1..Len(array_list)}
ZeroRow == <<0, 0, 0, 0>>

\* C3: with at least one present thread, the merged table holds every row as
\* many times as the present threads hold it together (nothing dropped,
\* duplicated, altered or zero-filled), and its row count is get_n_calls.
C3_MergeKeepsRowMultiset ==
    (Merged /\ SomePresent) =>
        /\ ~lrxp_out.val.isNone
        /\ \A x \in ThreadRows \cup RowsOf(lrxp_out.val.rows) \cup {ZeroRow} :
               Occurrences(lrxp_out.val.rows, x)
                   = OccurrencesInThreads(array_list, 1, x)
        /\ n_calls_out.err = "" => Len(lrxp_out.val.rows) = n_calls_out.val

\* an absent thread ahead of a present thread of two rows
C3_Witness ==
    /\ Merged /\ n_calls_out.err = ""
    /\ Len(array_list) = 2
    /\ array_list[1].isNone
    /\ Col(array_list[2].rows, 0) = <<1, 0>>
    /\ lrxp_out.val.rows = << <<0, 2, 0, 0>>, <<1, 1, 0, 0>> >>
    /\ n_calls_out.val = 2

\* C4: a merged table is ascending in its logl column.
C4_MergeSortedByLogl ==
    (Merged /\ ~lrxp_out.val.isNone) =>
        \A j \in 1..(Len(lrxp_out.val.rows) - 1) :
            lrxp_out.val.rows[j][1] <= lrxp_out.val.rows[j + 1][1]

\* threads out of order among themselves and a thread with descending rows
C4_Witness ==
    /\ Merged /\ ~lrxp_out.val.isNone
    /\ Len(array_list) = 2
    /\ Col(array_list[1].rows, 0) = <<1, 0>>
    /\ Col(array_list[2].rows, 0) = <<0>>
    /\ Col(lrxp_out.val.rows, 0) = <<0, 0, 1>>

\* C5: when the list is empty or holds only absent threads, merge_lrxp
\* returns None without raising.
C5_MergeOfNothingIsNone ==
    (lrxp_out # Pending /\ ~SomePresent) => lrxp_out = Returned(None)

\* a list of two absent threads
C5_Witness ==
    /\ array_list = <<None, None>>
    /\ lrxp_out = Returned(None)

----------------------------------------------------------------------------
(* Claim about run_estimators, checked under SpecEst *)

AllAbsent(threads) == \A t \in 1..Len(threads) : threads[t].isNone

\* C6: run_estimators on a run whose threads are all absent handles the
\* empty marker of the merge and yields a value instead of raising.
C6_EmptyRunDoesNotCrash ==
    (est_out # Pending /\ AllAbsent(ns_run.threads)) => est_out.err = ""

----------------------------------------------------------------------------
(* Claim about run_ci_bootstrap, checked under SpecCi *)

\* the call ended at its assertion: AssertionError, no resample drawn, no
\* estimator evaluated, no interval returned
FailedFast ==
    /\ ci_pc = "raised"
    /\ ci_out = Raised("AssertionError")
    /\ n_resampled = 0 /\ n_evaluated = 0

\* the call went past its assertion
PassedAssertion == ~(ci_pc = "raised" /\ n_resampled = 0)

OneMinusRoundsUp ==
    DLt(DDiv(100 - cred_int, 100), DOneMinus(DDiv(cred_int, 100)))

C7_FailsFastAtOne ==
    (n_simulate = 1 /\ cred_int = 95 /\ ci_pc # "assert") => FailedFast

----------------------------------------------------------------------------
(* Claims about bootstrap_resample_run, checked under SpecBoot *)

Resampled == boot_out.err = ""
NThreads == Len(ns_run.threads)

\* C8: a resampled run has n_threads threads and n_threads interval records,
\* and at every position its thread and its record are the thread and the
\* record of one original index.
C8_ResampleKeepsAlignment ==
    Resampled =>
        /\ Len(boot_out.val.threads) = NThreads
        /\ Len(boot_out.val.thread_logl_min_max) = NThreads
        /\ \A j \in 1..NThreads : \E i \in 1..NThreads :
               /\ boot_out.val.threads[j] = ns_run.threads[i]
               /\ boot_out.val.thread_logl_min_max[j]
                      = ns_run.thread_logl_min_max[i]

\* a draw with a repeated index, on a dynamic run with all threads present
C8_Witness ==
    /\ Resampled
    /\ ns_run.settings.dynamic_goal = "1" /\ ~sample_ninit_sep
    /\ inds = <<2, 2, 0>>
    /\ boot_out.val.threads = <<Thr(3), Thr(3), Thr(1)>>
    /\ boot_out.val.thread_logl_min_max = <<Rec(3), Rec(3), Rec(1)>>

Stratified == ns_run.settings.dynamic_goal # "None" /\ sample_ninit_sep

\* C9: in a stratified resample with 1 <= n_init < n_threads the first n_init
\* positions hold original indices 0..n_init-1 and the others original
\* indices n_init..n_threads-1; in an unstratified resample all n_threads
\* positions hold original indices 0..n_threads-1.
C9_StratifiedDraw ==
    Resampled =>
        LET ninit == ns_run.settings.nlive_1
            recs == boot_out.val.thread_logl_min_max
        IN  /\ Len(inds) = NThreads
            /\ (Stratified /\ 1 <= ninit /\ ninit < NThreads) =>
                   /\ \A j \in 1..ninit :
                          /\ inds[j] \in 0..(ninit - 1)
                          /\ recs[j] \in {Rec(i) : i \in 1..ninit}
                   /\ \A j \in (ninit + 1)..NThreads :
                          /\ inds[j] \in ninit..(NThreads - 1)
                          /\ recs[j] \in {Rec(i) : i \in (ninit + 1)..NThreads}
            /\ ~Stratified =>
                   \A j \in 1..NThreads : inds[j] \in 0..(NThreads - 1)

\* one initial thread and two added threads, the second added thread drawn
\* twice
C9_Witness ==
    /\ Resampled /\ Stratified
    /\ NThreads = 3 /\ ns_run.settings.nlive_1 = 1
    /\ inds = <<0, 2, 2>>

----------------------------------------------------------------------------
(* Claim about log_subtract, checked under SpecLogSub *)

\* C12: log_subtract called with loga < logb raises at once and returns no
\* value (not even NaN).
C12_LogSubtractRaisesWhenNegative ==
    (ls_out # Pending /\ RLt(loga, logb)) =>
        (ls_out.err # "" /\ ls_out.val = <<>>)

\* what the code does instead: it returns NaN
LogSubtractReturnsNaN ==
    (ls_out # Pending /\ RLt(loga, logb)) => ls_out = Returned(LogNaN)

----------------------------------------------------------------------------
(* Claim about get_estimators, checked under SpecGe *)

\* what the claim says estimator k (1-based) is given: the whole of logw,
\* column 0 as logl, column 1 as r and the columns from 3 on as theta
ExpectedValue(k) ==
    [f |-> ge_list[k],
     logw |-> ge_logw,
     logl |-> [j \in 1..Len(ge_lrxp) |-> ge_lrxp[j][1]],
     r |-> [j \in 1..Len(ge_lrxp) |-> ge_lrxp[j][2]],
     theta |-> [j \in 1..Len(ge_lrxp) |->
                   [c \in 1..(Len(ge_lrxp[j]) - 3) |-> ge_lrxp[j][c + 3]]]]

\* number of invocations made for slot i (0-based)
Invocations(i) ==
    Cardinality({c \in 1..Len(ge_out.val.calls) :
                    ge_out.val.calls[c].slot = i})

GeReturnsVector ==
    ge_out # Pending =>
        /\ ge_out.err = ""
        /\ Len(ge_out.val.output) = Len(ge_list)
        /\ \A k \in 1..Len(ge_list) :
            /\ ge_out.val.output[k] = ExpectedValue(k)
            /\ Invocations(k - 1) = 1
            /\ \E c \in 1..Len(ge_out.val.calls) :
                   ge_out.val.calls[c] = [slot |-> k - 1, f |-> ge_list[k]]
        /\ Len(ge_out.val.calls) = Len(ge_list)

\* C13: get_estimators returns a vector with one entry per estimator, entry
\* i being the value of estimator i applied to the whole of logw, to column
\* 0 (logl), column 1 (r) and columns 3 onward (theta) of the merged table;
\* every estimator is invoked exactly once, and the call changes neither
\* the merged table nor logw.
C13_GetEstimatorsVector ==
    /\ []GeReturnsVector
    /\ [][ge_lrxp' = ge_lrxp /\ ge_logw' = ge_logw]_vars

\* two estimators on a table of two rows with two parameter columns
C13_Witness ==
    /\ ge_out # Pending
    /\ ge_list = <<"logz", "theta1">>
    /\ ge_lrxp = Table(2, 5)
    /\ ge_out.val.output[2].theta = << <<4, 5>>, <<MaxCols + 4, MaxCols + 5>> >>
    /\ Len(ge_out.val.calls) = 2

----------------------------------------------------------------------------
(* Claim about absent threads in merge_lrxp, checked under SpecMerge *)

\* the list with x placed after its first p entries / without its entry p
InsertAt(list, p, x) ==
    SubSeq(list, 1, p) \o <<x>> \o SubSeq(list, p + 1, Len(list))
RemoveAt(list, p) == SubSeq(list, 1, p - 1) \o SubSeq(list, p + 1, Len(list))

PresentThreads == {t \in 1..Len(array_list) : ~array_list[t].isNone}

\* C14: absent threads are neutral for the merge: a list holding one present
\* thread T and any number of None entries merges to merge_lrxp([T]), and
\* placing a None entry anywhere in a list or removing one from it does not
\* change the result of merge_lrxp.
C14_AbsentThreadsNeutral ==
    Merged =>
        /\ \A t \in PresentThreads :
               PresentThreads = {t}
                   => lrxp_out.val = merge_lrxp(<<array_list[t]>>)
        /\ \A p \in 0..Len(array_list) :
               merge_lrxp(InsertAt(array_list, p, None)) = lrxp_out.val
        /\ \A p \in 1..Len(array_list) :
               array_list[p].isNone
                   => merge_lrxp(RemoveAt(array_list, p)) = lrxp_out.val

\* an unsorted thread followed by an absent one merges to the sorted thread
C14_Witness ==
    /\ Merged
    /\ array_list = <<Arr(TagRows(<<1, 0>>)), None>>
    /\ lrxp_out.val = Arr(<< <<0, 2, 0, 0>>, <<1, 1, 0, 0>> >>)
    /\ lrxp_out.val = merge_lrxp(<<array_list[1]>>)

----------------------------------------------------------------------------
(* Claims about get_logx and get_logw, checked under SpecWeights *)

AllPositive == \A i \in 1..Len(w_nlive) : w_nlive[i] > 0
SomeNonPositive == \E i \in 1..Len(w_nlive) : w_nlive[i] <= 0

\* sum over j <= i of 1 / w_nlive[j] as the fraction PrefNum(i) / PrefDen(i)
RECURSIVE PrefDen(_)
PrefDen(i) == IF i = 0 THEN 1 ELSE PrefDen(i - 1) * w_nlive[i]
RECURSIVE PrefNum(_)
PrefNum(i) ==
    IF i = 0 THEN 0 ELSE PrefNum(i - 1) * w_nlive[i] + PrefDen(i - 1)

\* C15: with simulate false and n >= 1 entries of nlive, all > 0, get_logx
\* returns n values, value i being the sum over j <= i of -1 / nlive[j];
\* the values are strictly decreasing and all negative; nlive = [5,5,5,5,5]
\* gives [-1/5, -2/5, -3/5, -4/5, -1].
C15_DeterministicLogxPrefixSums ==
    /\ (logx_out # Pending /\ ~simulate /\ Len(w_nlive) >= 1 /\ AllPositive)
         => /\ logx_out.err = ""
            /\ Len(logx_out.val) = Len(w_nlive)
            /\ \A i \in 1..Len(w_nlive) :
                /\ logx_out.val[i].d > 0
                /\ logx_out.val[i].n * PrefDen(i)
                       = (-PrefNum(i)) * logx_out.val[i].d
                /\ logx_out.val[i].n < 0
                /\ i > 1 => RLt(logx_out.val[i], logx_out.val[i - 1])
    /\ get_logx(<<5, 5, 5, 5, 5>>, FALSE, <<>>).val
         = <<Rat(-1, 5), Rat(-2, 5), Rat(-3, 5), Rat(-4, 5), Rat(-1, 1)>>

\* unequal live counts: -1/2, -1/2 - 1 = -3/2, -3/2 - 1/2 = -2
C15_Witness ==
    /\ logx_out # Pending /\ ~simulate
    /\ w_nlive = <<2, 1, 2>>
    /\ logx_out.val = <<Rat(-1, 2), Rat(-3, 2), Rat(-2, 1)>>

\* C16: when nlive has an entry <= 0, get_logx and get_logw raise, with
\* simulate true or false, before a random number is drawn (the generator's
\* stream is the same after the call) and without returning any logx or
\* logw values.
C16_NonPositiveNliveRaises ==
    /\ [](/\ (logx_out # Pending /\ SomeNonPositive)
               => (logx_out.err # "" /\ logx_out.val = <<>>)
          /\ (logw_out # Pending /\ SomeNonPositive)
               => (logw_out.err # "" /\ logw_out.val = <<>>))
    /\ [][(SomeNonPositive /\ (logx_out' # logx_out \/ logw_out' # logw_out))
             => rng' = rng]_vars

\* a zero between positive entries, stochastic mode: both calls raise and
\* the six random numbers are still to be drawn
C16_Witness ==
    /\ simulate
    /\ w_nlive = <<1, 0, 2>>
    /\ Len(rng) = 6
    /\ logx_out = Drew("AssertionError", <<>>, rng)
    /\ logw_out = Drew("AssertionError", <<>>, rng)

\* log X_i: 0 for i = 0, else the i-th value get_logx gives on the same
\* input and the same random numbers
LogX(i) ==
    IF i = 0 THEN RInt(0) ELSE get_logx(w_nlive, simulate, rng).val[i]

\* the volume weight of sample i (1-based) the claim gives, for N >= 3
RECURSIVE VolumeWeight(_)
VolumeWeight(i) ==
    IF i = 1
    THEN {<<RInt(0), RInt(1)>>, <<LogX(1), Rat(-1, 2)>>,
          <<LogX(2), Rat(-1, 2)>>}
    ELSE IF i = Len(w_logl) THEN VolumeWeight(i - 1)
    ELSE {<<LogX(i - 1), Rat(1, 2)>>, <<LogX(i + 1), Rat(-1, 2)>>}

\* logl[i] + log(w): every term of w multiplied by exp(logl[i])
WeightTimesLikelihood(i) ==
    [nan |-> FALSE,
     sum |-> {<<Rat(t[1].n + w_logl[i] * t[1].d, t[1].d), t[2]>> :
                 t \in VolumeWeight(i)}]

\* C17: for N >= 3 samples, with X_0 = 1 and X_i = exp of the i-th get_logx
\* value (on the random numbers the call reads), a call of get_logw returns
\* logl[i] + log(w_i) where w_i = (X_{i-1} - X_{i+1}) / 2 for
\* 2 <= i <= N - 1, w_1 = (X_0 - X_2) / 2 + (X_0 - X_1) / 2 and
\* w_N = w_{N-1}.
C17_TrapeziumWeights ==
    [][(logw_out = Pending /\ logw_out' # Pending
        /\ Len(w_logl) >= 3 /\ AllPositive) =>
           /\ logw_out'.err = ""
           /\ Len(logw_out'.val) = Len(w_logl)
           /\ \A i \in 1..Len(w_logl) :
                  logw_out'.val[i] = WeightTimesLikelihood(i)]_vars

\* three samples: w_2 = (exp(-1/2) - exp(-2)) / 2 is also the weight of the
\* last sample, whose logl is 1
C17_Witness ==
    /\ logw_out # Pending /\ ~simulate
    /\ w_nlive = <<2, 1, 2>>
    /\ w_logl = <<0, 0, 1>>
    /\ logw_out.val[2].sum
           = {<<Rat(-1, 2), Rat(1, 2)>>, <<Rat(-2, 1), Rat(-1, 2)>>}
    /\ logw_out.val[3].sum
           = {<<Rat(1, 2), Rat(1, 2)>>, <<Rat(-1, 1), Rat(-1, 2)>>}
    /\ logw_out.val[1].sum
           = {<<RInt(0), RInt(1)>>, <<Rat(-1, 2), Rat(-1, 2)>>,
              <<Rat(-3, 2), Rat(-1, 2)>>}

----------------------------------------------------------------------------
(* Claim about the iterations of run_std_simulate, run_std_bootstrap and   *)
(* run_ci_bootstrap, checked under SpecUnc                                 *)

\* the merged table and live counts of the original run
RunTable == merge_lrxp(ns_run.threads)
RunNlive == get_nlive(ns_run, Col(RunTable.rows, 0))

\* what slot k (1-based) of the result matrix must hold whatever the order
\* of the iterations: the value computed from the original run and the
\* random numbers of iteration k - 1 alone
OrderFreeValue(k) ==
    IF proc = "run_std_simulate"
    THEN get_estimators(RunTable.rows,
                        get_logw(Col(RunTable.rows, 0), RunNlive.val,
                                 TRUE, rng[k]).val,
                        EstimatorList)
    ELSE run_estimators(BuildTemp(ns_run, rng[k]).val, EstimatorList,
                        FALSE, <<>>).val

ZeroColumn == [e \in 1..Len(EstimatorList) |-> ZeroEntry]

\* every slot has been written once or not yet, the slots not yet written
\* hold zeros, an iteration holds a resample only before it writes its
\* slot, a call that reached its end has written
\* every slot, with the order-free values, and run_std_simulate keeps the
\* merged table and the live counts of the original run
SlotsWrittenOnce ==
    /\ bs_values # <<>> =>
        /\ Len(bs_values) = n_simulate
        /\ Len(slot_writes) = n_simulate
        /\ Cardinality({k \in 1..n_simulate : slot_writes[k] = 1}) = ci_i
        /\ \A k \in 1..n_simulate :
            /\ slot_writes[k] \in {0, 1}
            /\ slot_writes[k] = 0 => bs_values[k] = ZeroColumn
            /\ ~ns_run_temp[k].isNone => slot_writes[k] = 0
    /\ ci_pc = "done" =>
           /\ bs_values = [k \in 1..n_simulate |-> OrderFreeValue(k)]
           /\ slot_writes = [k \in 1..n_simulate |-> 1]
    /\ (proc = "run_std_simulate" /\ ci_pc = "simulate") =>
           (sim_lrxp = RunTable /\ sim_nlive = RunNlive)

\* a step leaves the original run and the random numbers of the iterations
\* alone, writes at most one slot, a slot not written before, with its
\* order-free value, leaves every other slot as it was, binds the local
\* ns_run_temp of an iteration to nothing but the resample of the original
\* run by the draw of that iteration and, in run_std_simulate, keeps the
\* merged table and live counts
IterationStep ==
    /\ ns_run' = ns_run
    /\ rng' = rng
    /\ bs_values # <<>> =>
        /\ Len(bs_values') = Len(bs_values)
        /\ \A k \in 1..Len(bs_values) :
               IF slot_writes'[k] # slot_writes[k]
               THEN /\ slot_writes[k] = 0 /\ slot_writes'[k] = 1
                    /\ bs_values'[k] = OrderFreeValue(k)
                    /\ \A j \in 1..Len(bs_values) :
                           j # k => slot_writes'[j] = slot_writes[j]
               ELSE bs_values'[k] = bs_values[k]
    /\ \A k \in 1..Len(ns_run_temp) :
           (ns_run_temp'[k] # ns_run_temp[k] /\ ~ns_run_temp'[k].isNone) =>
               ns_run_temp'[k].run = BuildTemp(ns_run, rng[k]).val
    /\ ci_pc = "simulate" =>
           (sim_lrxp' = sim_lrxp /\ sim_nlive' = sim_nlive)

\* C18: in run_std_simulate, run_std_bootstrap and run_ci_bootstrap, with
\* the iterations run in any order and interleaving, no step changes the
\* original run, iteration i writes only slot i of the result matrix, once,
\* with a value that depends on the original run and its own random draws
\* only, every slot 0..n_simulate-1 is written exactly once, and
\* run_std_simulate uses the same merged table and live counts in every
\* iteration; so every order and interleaving ends with the same result
\* matrix, the one of the order-free values.
C18_IterationsIndependent ==
    /\ []SlotsWrittenOnce
    /\ [][IterationStep]_vars

\* run_std_bootstrap on a run of two threads, out of order and interleaved:
\* iteration 1 (both draws the second thread) has written its slot while
\* iteration 0 (both draws the first thread) holds its resample and has not
\* written yet
C18_Witness ==
    /\ proc = "run_std_bootstrap"
    /\ n_simulate = 2
    /\ ci_pc = "resample"
    /\ rng = <<Returned(<<0, 0>>), Returned(<<1, 1>>)>>
    /\ slot_writes = <<0, 1>>
    /\ ~ns_run_temp[1].isNone
    /\ ns_run_temp[1].run.threads = <<Thr(1), Thr(1)>>
    /\ bs_values[1] = ZeroColumn
    /\ bs_values[2] = OrderFreeValue(2)
    /\ OrderFreeValue(1) # OrderFreeValue(2)

\* run_std_simulate out of order: the last of three iterations has written
\* its slot before the first two
SimulateOutOfOrder ==
    /\ proc = "run_std_simulate"
    /\ n_simulate = 3
    /\ ci_pc = "simulate"
    /\ slot_writes = <<0, 0, 1>>
    /\ rng[1] # rng[3]
    /\ bs_values[3] = OrderFreeValue(3)
    /\ bs_values[3] # ZeroColumn

----------------------------------------------------------------------------
(* Claim about the nsphere shell samplers, checked under SpecShells *)

\* the number of columns asked for
AskedColumns == IF n_sample.isNone THEN n_dim ELSE n_sample.v

\* C19: sample_nsphere_shells_normal and sample_nsphere_shells_beta return
\* an array of shape (m, n_sample), n_sample being n_dim when None, except
\* that sample_nsphere_shells_normal raises an AssertionError when
\* n_sample > n_dim; sample_nsphere_shells does what the beta sampler does
\* exactly when n_dim >= 100 and n_sample == 1, and what the normal sampler
\* does otherwise.
C19_ShellSamplerShapes ==
    sh_out # Pending =>
        /\ sh_fn = "sample_nsphere_shells_beta"
               => sh_out = Returned(<<sh_m, AskedColumns>>)
        /\ sh_fn = "sample_nsphere_shells_normal"
               => sh_out = IF AskedColumns > n_dim
                           THEN Raised("AssertionError")
                           ELSE Returned(<<sh_m, AskedColumns>>)
        /\ sh_fn = "sample_nsphere_shells"
               => sh_out = IF n_dim >= 100 /\ n_sample = Sample(1)
                           THEN sample_nsphere_shells_beta(sh_m, n_dim,
                                                           n_sample)
                           ELSE sample_nsphere_shells_normal(sh_m, n_dim,
                                                             n_sample)

\* what holds of the code: the normal sampler never raises and returns
\* min(n_sample, n_dim) columns; the beta sampler raises for n_dim = 1 and
\* returns the asked columns otherwise; the dispatch is as claimed
ShellShapesOfTheCode ==
    sh_out # Pending =>
        /\ sh_fn = "sample_nsphere_shells_beta"
               => sh_out = IF n_dim = 1 THEN Raised("ValueError")
                           ELSE Returned(<<sh_m, AskedColumns>>)
        /\ sh_fn = "sample_nsphere_shells_normal"
               => sh_out = Returned(<<sh_m, Min2(AskedColumns, n_dim)>>)
        /\ sh_fn = "sample_nsphere_shells"
               => sh_out = IF n_dim >= 100 /\ n_sample = Sample(1)
                           THEN Returned(<<sh_m, 1>>)
                           ELSE Returned(<<sh_m, Min2(AskedColumns, n_dim)>>)

----------------------------------------------------------------------------
(* Claim about pickle_save and pickle_load, checked under SpecFs *)

\* the first save made under a name
FirstSave(name) ==
    saved[CHOOSE k \in 1..Len(saved) :
              /\ saved[k].name = name
              /\ \A j \in 1..(k - 1) : saved[j].name # name]

\* pickle_load(name), made now, returns the object first saved under name
LoadGivesFirstSave ==
    \A k \in 1..Len(saved) :
        pickle_load(files, saved[k].name)
            = Returned(FirstSave(saved[k].name).data)

\* C20: after any sequence of pickle_save calls, also several with the same
\* name within one clock second, every object saved earlier is still
\* stored unchanged in some file, and pickle_load(name) returns the object
\* of the first save under that name.
C20_SaveNeverDestroys ==
    /\ \A k \in 1..Len(saved) :
           \E f \in files : f.name = saved[k].name /\ f.data = saved[k].data
    /\ LoadGivesFirstSave

----------------------------------------------------------------------------
(* Claim about chains of contiguous records, checked under SpecChain *)

\* the first k + 1 records form a chain with k thresholds and multiplicity
\* recs[1][3]
IsChain(recs, k) ==
    /\ k >= 1 /\ Len(recs) >= k + 1
    /\ recs[1][1].nan /\ ~recs[1][2].nan
    /\ recs[k + 1][2].nan /\ ~recs[k + 1][1].nan
    /\ \A j \in 2..(k + 1) :
        /\ recs[j][1] = recs[j - 1][2]
        /\ recs[j][3] = recs[1][3]
        /\ j <= k => (~recs[j][2].nan /\ recs[j][1].v < recs[j][2].v)

\* the records of the chain in which get_nlive counts sample value l
CountedIn(recs, k, l) ==
    {j \in 1..(k + 1) : get_nlive([thread_logl_min_max |-> <<recs[j]>>],
                                  <<l>>) = Returned(<<recs[j][3]>>)}

\* C21: for a chain (NaN, t1, m), (t1, t2, m), ..., (tk, NaN, m) with
\* t1 < ... < tk, get_nlive counts every sample in exactly one record of the
\* chain, a sample equal to t_j in the record ending at t_j, so that the
\* chain adds exactly m to the live count of every sample.
C21_ChainTilesLikelihoodAxis ==
    \A k \in 1..MaxChain :
        LET recs == run_dict.thread_logl_min_max
        IN  (Called /\ IsChain(recs, k) /\ Len(logl) >= 1
             /\ \A j \in (k + 2)..Len(recs) :
                    ~(recs[j][1].nan /\ recs[j][2].nan)) =>
                /\ nlive_out.err = ""
                /\ \A i \in 1..Len(logl) :
                    /\ nlive_out.val[i]
                           = recs[1][3] + StabSum(recs, k + 2, logl[i])
                    /\ Cardinality(CountedIn(recs, k, logl[i])) = 1
                    /\ \A j \in 1..k :
                           logl[i] = recs[j][2].v
                               => CountedIn(recs, k, logl[i]) = {j}

\* two thresholds, samples on both of them: each is counted in the record
\* that ends there
C21_Witness ==
    /\ Called
    /\ run_dict.thread_logl_min_max
           = << <<NaN, Num(1), 2>>, <<Num(1), Num(2), 2>>,
                <<Num(2), NaN, 2>> >>
    /\ logl = <<1, 2>>
    /\ CountedIn(run_dict.thread_logl_min_max, 2, 1) = {1}
    /\ CountedIn(run_dict.thread_logl_min_max, 2, 2) = {2}
    /\ nlive_out = Returned(<<2, 2>>)

----------------------------------------------------------------------------
(* Claim about the live counts of a resampled run, checked under           *)
(* SpecBootNlive                                                           *)

\* all multiplicities of the original run are positive and every row of
\* every present thread lies inside the thread's own interval record
RowsInsideOwnRecord ==
    \A t \in 1..Len(ns_run.threads) :
        /\ ns_run.thread_logl_min_max[t][3] > 0
        /\ ~ns_run.threads[t].isNone =>
               \A j \in 1..Len(ns_run.threads[t].rows) :
                   Contains(ns_run.thread_logl_min_max[t],
                            ns_run.threads[t].rows[j][1])

ResampleHasPresentThread ==
    \E t \in 1..Len(run_dict.threads) : ~run_dict.threads[t].isNone

\* C22: for a dynamic run with positive multiplicities in which every row
\* of every present thread lies inside that thread's own record, the live
\* count of every merged sample of every resample with a present thread is
\* > 0: get_nlive does not fail its assertion on non-positive counts (and
\* returns the counts unless the resample holds a record with both bounds
\* NaN).
C22_ResampleLiveCountsPositive ==
    (Called /\ RowsInsideOwnRecord /\ ResampleHasPresentThread) =>
        LET counts == DynamicNlive(run_dict.thread_logl_min_max, logl)
        IN  /\ Len(logl) >= 1
            /\ \A i \in 1..Len(logl) : counts[i] > 0
            /\ nlive_out.err # "ValueError"
            /\ nlive_out.err # "TypeError"
            /\ (\A t \in 1..Len(run_dict.thread_logl_min_max) :
                    ~(run_dict.thread_logl_min_max[t][1].nan
                      /\ run_dict.thread_logl_min_max[t][2].nan))
                   => nlive_out = Returned(counts)

\* the second thread drawn twice: its rows 1, 2 appear twice and both
\* copies of its record count them
C22_Witness ==
    /\ Called /\ RowsInsideOwnRecord
    /\ inds = <<1, 1>>
    /\ run_dict.thread_logl_min_max
           = << <<Num(0), NaN, 2>>, <<Num(0), NaN, 2>> >>
    /\ logl = <<1, 1, 2, 2>>
    /\ ns_run.threads[1] = Arr(TagRows(<<0, 1>>))
    /\ nlive_out = Returned(<<4, 4, 4, 4>>)

----------------------------------------------------------------------------
(* Claim about the interpolation grid of run_ci_bootstrap, checked under   *)
(* SpecCdf                                                                 *)

\* C23: whenever the assertion min(cred_int, 1 - cred_int) * n_simulate > 1
\* passes, the point 1 - cred_int lies strictly between the grid points
\* 0.5 / n_simulate and (n_simulate - 0.5) / n_simulate, as doubles and as
\* exact numbers, and the interpolation reads two neighbouring sorted
\* replicates, those at the ends of a grid interval that holds the point
\* (up to the rounding of 1. - cred_int, which may put a point that is
\* exactly a grid point into the interval below it), and is not clamped.
C23_InterpolationInsideGrid ==
    LET n == n_simulate
        x200n == 2 * n * (100 - cred_int)    \* (1 - cred_int) * 200 * n
    IN  (ci_out # Pending /\ ci_out.err = "") =>
            /\ Min2(cred_int, 100 - cred_int) * n >= 100
            /\ 100 < x200n
            /\ x200n < 100 * (2 * n - 1)
            /\ DLt(DDiv(1, 2 * n), DOneMinus(DDiv(cred_int, 100)))
            /\ DLt(DOneMinus(DDiv(cred_int, 100)), DDiv(2 * n - 1, 2 * n))
            /\ ci_out.val.clamp = ""
            /\ ci_out.val.lo \in 0..(n - 2)
            /\ ci_out.val.hi = ci_out.val.lo + 1
            /\ 100 * (2 * ci_out.val.lo + 1) <= x200n
            /\ x200n <= 100 * (2 * ci_out.val.hi + 1)

\* the assertion never fails when the product of the exact numbers is > 1
AssertionPassesAboveOne ==
    (ci_out # Pending
     /\ Min2(cred_int, 100 - cred_int) * n_simulate > 100) =>
        ci_out.err = ""

\* cred_int = 0.95 with 21 replicates: 0.05 lies between the grid points
\* 0.5 / 21 and 1.5 / 21
C23_Witness ==
    /\ cred_int = 95 /\ n_simulate = 21
    /\ ci_out = Returned([clamp |-> "", lo |-> 0, hi |-> 1])

----------------------------------------------------------------------------
(* Claim about resampling a run without interval records, checked under    *)
(* SpecBoot                                                                *)

FixedRunWithoutRecords ==
    /\ ns_run.settings.dynamic_goal = "None"
    /\ "thread_logl_min_max" \notin DOMAIN ns_run
    /\ NThreads >= 1

\* C24: for a run with dynamic_goal None, without interval records and with
\* at least one thread, bootstrap_resample_run returns, without raising, a
\* run of n_threads threads of the original run drawn in one unstratified
\* draw with replacement, with the settings of the original run.
C24_FixedRunResampled ==
    (FixedRunWithoutRecords /\ boot_out # Pending) =>
        /\ boot_out.err = ""
        /\ Len(inds) = NThreads
        /\ \A j \in 1..NThreads : inds[j] \in 0..(NThreads - 1)
        /\ boot_out.val.threads = Take(ns_run.threads, inds)
        /\ boot_out.val.settings = ns_run.settings

\* what the code does on such a run: ns_run["thread_logl_min_max"] fails
\* after the draw and no run is returned
FixedRunWithoutRecordsRaises ==
    (FixedRunWithoutRecords /\ boot_out # Pending) =>
        boot_out = Raised("KeyError")

----------------------------------------------------------------------------
(* Claim about the length of the result of get_logw, checked under         *)
(* SpecWeights                                                             *)

\* C25: for N >= 1 samples and strictly positive live counts, get_logw
\* returns without error exactly N log-weights (for N = 1 and N = 2 in
\* particular).
C25_LogwForEveryLength ==
    (logw_out # Pending /\ Len(w_logl) >= 1
     /\ \A i \in 1..Len(w_nlive) : w_nlive[i] > 0) =>
        /\ logw_out.err = ""
        /\ Len(logw_out.val) = Len(w_logl)

\* what the code does: N log-weights for N >= 2, IndexError for N = 1
\* (logw[-1] = logw[-2] on an array of one entry)
LogwNeedsTwoSamples ==
    (logw_out # Pending /\ Len(w_logl) >= 1
     /\ \A i \in 1..Len(w_nlive) : w_nlive[i] > 0) =>
        IF Len(w_logl) = 1
        THEN logw_out.err = "IndexError"
        ELSE logw_out.err = "" /\ Len(logw_out.val) = Len(w_logl)

====
